---- MODULE Spec2Model ----
(***************************************************************************)
(* A model of ResumeBot's resume normalisation code                        *)
(* (src/src/config/writer/finalize_resume.py).                             *)
(*                                                                         *)
(* Text is modelled character by character: a Python str is a sequence of  *)
(* characters, each character a one-letter TLA+ string, except the en dash *)
(* U+2013 and the em dash U+2014, written "EN" and "EM", and the double    *)
(* quote, the backslash and the backtick, written "DQ", "BS" and "BT".     *)
(* A JSON / Python value is a record of its type t and its payload, in a   *)
(* field named after the type: [t |-> "str", s |-> <<"a","b">>].           *)
(* A call of one function of the module is a behaviour of two states: the  *)
(* call (pc = "call", fn and arg chosen) and its return (pc = "done", ret  *)
(* holding the returned value or the exception raised).                    *)
(***************************************************************************)
EXTENDS Integers, Sequences, FiniteSets, TLC

\* A call: its position, the function, its argument, what it returned.
VARIABLES pc, fn, arg, ret

\* What the module-level name MONTH_MAP is bound to, and the local variables
\* of the to_json_resume calls that run side by side.
VARIABLES month_map, frames

\* The files of the theme folder and of the output folder, and the renderer
\* process that json_resume_to_pdf ran.
VARIABLES files, proc

\* The calls made so far with what came of each, and the lines printed.
VARIABLES calls, stdout

vars == <<pc, fn, arg, ret, month_map, frames, files, proc, calls, stdout>>

(***************************************************************************)
(* Characters.                                                             *)
(***************************************************************************)
AsciiPrintable ==
  <<" ","!","DQ","#","$","%","&","'","(",")","*","+",",","-",".","/",
    "0","1","2","3","4","5","6","7","8","9",":",";","<","=",">","?","@",
    "A","B","C","D","E","F","G","H","I","J","K","L","M","N","O","P","Q",
    "R","S","T","U","V","W","X","Y","Z","[","BS","]","^","_","BT",
    "a","b","c","d","e","f","g","h","i","j","k","l","m","n","o","p","q",
    "r","s","t","u","v","w","x","y","z","{","|","}","~">>

Chars == {AsciiPrintable[i] : i \in 1..Len(AsciiPrintable)} \cup {"EN", "EM"}

\* The Unicode code point of a character (ord).
Ord ==
  [c \in Chars |->
     IF c = "EN" THEN 8211
     ELSE IF c = "EM" THEN 8212
     ELSE 31 + (CHOOSE i \in 1..Len(AsciiPrintable) : AsciiPrintable[i] = c)]

\* str.isspace / the regex class \s, on the characters of Chars.
IsSpace(c) == Ord[c] = 32

\* The regex class \d.
IsDigit(c) == Ord[c] >= 48 /\ Ord[c] <= 57

IsUpper(c) == Ord[c] >= 65 /\ Ord[c] <= 90

IsLower(c) == Ord[c] >= 97 /\ Ord[c] <= 122

\* The regex class \w: letters, digits and the underscore.
IsWord(c) == IsUpper(c) \/ IsLower(c) \/ IsDigit(c) \/ Ord[c] = 95

\* str.lower on one character.
LowerChar(c) == IF IsUpper(c) THEN AsciiPrintable[Ord[c] + 32 - 31] ELSE c

\* str.upper on one character.
UpperChar(c) == IF IsLower(c) THEN AsciiPrintable[Ord[c] - 32 - 31] ELSE c

\* str.lower.
Lower(s) == [i \in 1..Len(s) |-> LowerChar(s[i])]

(***************************************************************************)
(* Python's string methods, as the code uses them.                         *)
(***************************************************************************)
\* s[i:], 1-based: the text from position i on.
From(s, i) == SubSeq(s, i, Len(s))

\* Whether text t occurs in s at position i.
OccursAt(s, t, i) ==
  /\ i >= 1
  /\ i + Len(t) - 1 <= Len(s)
  /\ \A k \in 1..Len(t) : s[i + k - 1] = t[k]

\* str.find(t) from position i on, 1-based: the first occurrence, 0 if none.
RECURSIVE FindFrom(_, _, _)
FindFrom(s, t, i) ==
  IF i + Len(t) - 1 > Len(s) THEN 0
  ELSE IF OccursAt(s, t, i) THEN i
  ELSE FindFrom(s, t, i + 1)

\* The position of the first occurrence of t in s, 0 when there is none.
Find(s, t) == FindFrom(s, t, 1)

\* "t in s".
Contains(s, t) == Find(s, t) # 0

\* The first position from i on that holds no whitespace (Len(s) + 1 if none).
RECURSIVE SkipSpaces(_, _)
SkipSpaces(s, i) ==
  IF i > Len(s) \/ ~IsSpace(s[i]) THEN i ELSE SkipSpaces(s, i + 1)

\* The last position up to i that holds no whitespace (0 if none).
RECURSIVE SkipSpacesBack(_, _)
SkipSpacesBack(s, i) ==
  IF i < 1 \/ ~IsSpace(s[i]) THEN i ELSE SkipSpacesBack(s, i - 1)

\* str.strip().
Strip(s) == SubSeq(s, SkipSpaces(s, 1), SkipSpacesBack(s, Len(s)))

\* str.split(sep) with a non-empty separator: every piece, empty ones too.
RECURSIVE Split(_, _)
Split(s, sep) ==
  LET i == Find(s, sep)
  IN IF i = 0 THEN <<s>>
     ELSE <<SubSeq(s, 1, i - 1)>> \o Split(From(s, i + Len(sep)), sep)

\* str.split(sep, 1): split at the first occurrence only.
SplitOnce(s, sep) ==
  LET i == Find(s, sep)
  IN IF i = 0 THEN <<s>>
     ELSE <<SubSeq(s, 1, i - 1), From(s, i + Len(sep))>>

\* A text that is not empty (truthy).
NonEmpty(s) == s # <<>>

\* [p.strip() for p in parts]
StripEach(parts) == [i \in 1..Len(parts) |-> Strip(parts[i])]

\* [p.strip() for p in parts if p.strip()]
StripAll(parts) == SelectSeq(StripEach(parts), NonEmpty)

(***************************************************************************)
(* Python / JSON values.                                                   *)
(***************************************************************************)
None == [t |-> "null"]

Num(n) == [t |-> "num", n |-> n]

Bool(b) == [t |-> "bool", b |-> b]

\* A str: its characters.
Str(s) == [t |-> "str", s |-> s]

\* A list: its elements.
List(xs) == [t |-> "list", xs |-> xs]

\* A dict: its <<key, value>> pairs in insertion order, keys being texts.
Dict(kvs) == [t |-> "dict", kvs |-> kvs]

\* A tuple returned by a function.
Pair(a, b) == [t |-> "tuple", v |-> <<a, b>>]

\* An exception that leaves the function.
Raise(e) == [t |-> "raise", e |-> e]

\* isinstance(x, str), isinstance(x, dict), isinstance(x, list).
IsStr(x) == x.t = "str"

IsDict(x) == x.t = "dict"

IsList(x) == x.t = "list"

\* The keys of the raw record, of its entries and of the document.
K ==
  [network |-> <<"n","e","t","w","o","r","k">>,
   username |-> <<"u","s","e","r","n","a","m","e">>,
   url |-> <<"u","r","l">>,
   basics |-> <<"b","a","s","i","c","s">>,
   education |-> <<"e","d","u","c","a","t","i","o","n">>,
   experience |-> <<"e","x","p","e","r","i","e","n","c","e">>,
   projects |-> <<"p","r","o","j","e","c","t","s">>,
   skills |-> <<"s","k","i","l","l","s">>,
   name |-> <<"n","a","m","e">>,
   email |-> <<"e","m","a","i","l">>,
   phone |-> <<"p","h","o","n","e">>,
   location |-> <<"l","o","c","a","t","i","o","n">>,
   website |-> <<"w","e","b","s","i","t","e">>,
   linkedin |-> <<"l","i","n","k","e","d","i","n">>,
   github |-> <<"g","i","t","h","u","b">>,
   title |-> <<"t","i","t","l","e">>,
   dates |-> <<"d","a","t","e","s">>,
   id |-> <<"i","d">>,
   gpa |-> <<"g","p","a">>,
   tools |-> <<"t","o","o","l","s">>,
   bullets |-> <<"b","u","l","l","e","t","s">>,
   text |-> <<"t","e","x","t">>,
   schema |-> <<"$","s","c","h","e","m","a">>,
   work |-> <<"w","o","r","k">>,
   city |-> <<"c","i","t","y">>,
   region |-> <<"r","e","g","i","o","n">>,
   profiles |-> <<"p","r","o","f","i","l","e","s">>,
   institution |-> <<"i","n","s","t","i","t","u","t","i","o","n">>,
   area |-> <<"a","r","e","a">>,
   studyType |-> <<"s","t","u","d","y","T","y","p","e">>,
   startDate |-> <<"s","t","a","r","t","D","a","t","e">>,
   endDate |-> <<"e","n","d","D","a","t","e">>,
   position |-> <<"p","o","s","i","t","i","o","n">>,
   highlights |-> <<"h","i","g","h","l","i","g","h","t","s">>,
   keywords |-> <<"k","e","y","w","o","r","d","s">>,
   level |-> <<"l","e","v","e","l">>]

(***************************************************************************)
(* _parse_city_region                                                      *)
(***************************************************************************)
\* The city and the region from the segments kept: none, one, or the first
\* two of them.
CityRegionOf(parts) ==
  IF parts = <<>> THEN Pair(<<>>, <<>>)
  ELSE IF Len(parts) = 1 THEN Pair(parts[1], <<>>)
  ELSE Pair(parts[1], parts[2])

\* A mutant: empty segments are kept.
ParseCityRegionKeepsEmpty(location) ==
  IF ~IsStr(location) THEN Pair(<<>>, <<>>)
  ELSE CityRegionOf(StripEach(Split(location.s, <<",">>)))

ParseCityRegion(location) ==
  IF ~IsStr(location) THEN Pair(<<>>, <<>>)
  ELSE CityRegionOf(StripAll(Split(location.s, <<",">>)))

(***************************************************************************)
(* _parse_link_profile                                                     *)
(***************************************************************************)
\* segments[-1], "" for no segment.
LastOrEmpty(segments) == IF segments # <<>> THEN segments[Len(segments)] ELSE <<>>

\* [s for s in path.split("/") if s]
PathSegments(path) == SelectSeq(Split(path, <<"/">>), NonEmpty)

\* path = url.split("://", 1)[-1]
PathOf(url) == LastOrEmpty(SplitOnce(url, <<":","/","/">>))

\* The username: the last non-empty segment of the path, or "".
UsernameOf(url) == LastOrEmpty(PathSegments(PathOf(url)))

\* The network named by the host names found in a lowered URL.
NetworkOfHost(lowered) ==
  IF Contains(lowered, <<"l","i","n","k","e","d","i","n",".","c","o","m">>)
  THEN <<"L","i","n","k","e","d","I","n">>
  ELSE IF Contains(lowered, <<"g","i","t","h","u","b",".","c","o","m">>)
  THEN <<"G","i","t","H","u","b">>
  ELSE <<"P","r","o","f","i","l","e">>

\* A mutant: the host names are looked for in the URL as written.
NetworkOfCaseSensitive(url) == NetworkOfHost(url)

\* The network of a URL, from the host names it contains.
NetworkOf(url) == NetworkOfHost(Lower(url))

\* The profile of a URL already stripped, None for an empty one.
ProfileOf(u) ==
  IF u = <<>> THEN None
  ELSE Dict(<< <<K.network, Str(NetworkOf(u))>>,
               <<K.username, Str(UsernameOf(u))>>,
               <<K.url, Str(u)>> >>)

ParseLinkProfile(url) == IF ~IsStr(url) THEN None ELSE ProfileOf(Strip(url.s))

(***************************************************************************)
(* _DATE_SPLIT_RE, _parse_month_year, _parse_date_range                    *)
(***************************************************************************)
MONTH_MAP ==
  (<<"j","a","n">> :> <<"0","1">>)
  @@ (<<"j","a","n","u","a","r","y">> :> <<"0","1">>)
  @@ (<<"f","e","b">> :> <<"0","2">>)
  @@ (<<"f","e","b","r","u","a","r","y">> :> <<"0","2">>)
  @@ (<<"m","a","r">> :> <<"0","3">>)
  @@ (<<"m","a","r","c","h">> :> <<"0","3">>)
  @@ (<<"a","p","r">> :> <<"0","4">>)
  @@ (<<"a","p","r","i","l">> :> <<"0","4">>)
  @@ (<<"m","a","y">> :> <<"0","5">>)
  @@ (<<"j","u","n">> :> <<"0","6">>)
  @@ (<<"j","u","n","e">> :> <<"0","6">>)
  @@ (<<"j","u","l">> :> <<"0","7">>)
  @@ (<<"j","u","l","y">> :> <<"0","7">>)
  @@ (<<"a","u","g">> :> <<"0","8">>)
  @@ (<<"a","u","g","u","s","t">> :> <<"0","8">>)
  @@ (<<"s","e","p">> :> <<"0","9">>)
  @@ (<<"s","e","p","t">> :> <<"0","9">>)
  @@ (<<"s","e","p","t","e","m","b","e","r">> :> <<"0","9">>)
  @@ (<<"o","c","t">> :> <<"1","0">>)
  @@ (<<"o","c","t","o","b","e","r">> :> <<"1","0">>)
  @@ (<<"n","o","v">> :> <<"1","1">>)
  @@ (<<"n","o","v","e","m","b","e","r">> :> <<"1","1">>)
  @@ (<<"d","e","c">> :> <<"1","2">>)
  @@ (<<"d","e","c","e","m","b","e","r">> :> <<"1","2">>)

\* The character class of _DATE_SPLIT_RE as the source file spells it: an
\* opening bracket, U+002D, U+002D, U+2014, a closing bracket.  Between
\* brackets "x-y" is a range, so the class is the range U+002D..U+2014.
InDateSplitClass(c) == Ord[c] >= 45 /\ Ord[c] <= 8212

\* A match of _DATE_SPLIT_RE (\s*, one character of the class, \s*) that
\* starts at position i: the position after the match, or 0 for no match.
DateSplitMatch(s, i) ==
  LET j == SkipSpaces(s, i)
  IN IF j <= Len(s) /\ InDateSplitClass(s[j]) THEN SkipSpaces(s, j + 1) ELSE 0

\* The pieces of s from position i on, the current piece having begun at
\* position start: the scan for the successive leftmost matches.
RECURSIVE DateSplitFrom(_, _, _)
DateSplitFrom(s, start, i) ==
  IF i > Len(s) THEN <<SubSeq(s, start, Len(s))>>
  ELSE IF DateSplitMatch(s, i) # 0
  THEN <<SubSeq(s, start, i - 1)>>
       \o DateSplitFrom(s, DateSplitMatch(s, i), DateSplitMatch(s, i))
  ELSE DateSplitFrom(s, start, i + 1)

\* _DATE_SPLIT_RE.split(s)
DateSplit(s) == DateSplitFrom(s, 1, 1)

\* The end of the run of non-whitespace characters that starts at i.
RECURSIVE SkipWord(_, _)
SkipWord(s, i) ==
  IF i > Len(s) \/ IsSpace(s[i]) THEN i ELSE SkipWord(s, i + 1)

\* str.split() without a separator: the runs of non-whitespace characters.
RECURSIVE WsSplitFrom(_, _)
WsSplitFrom(s, i) ==
  LET a == SkipSpaces(s, i)
      b == SkipWord(s, a)
  IN IF a > Len(s) THEN <<>>
     ELSE <<SubSeq(s, a, b - 1)>> \o WsSplitFrom(s, b)

WsSplit(s) == WsSplitFrom(s, 1)

\* text.replace(",", " ")
CommasToSpaces(s) == [i \in 1..Len(s) |-> IF s[i] = "," THEN " " ELSE s[i]]

\* A mutant: the punctuation of the month token is kept.
WordCharsNotStripped(token) == token

\* re.sub(r"[^\w]", "", token)
WordCharsOf(token) == SelectSeq(token, IsWord)

\* Whether four digits start at position i.
FourDigitsAt(s, i) == i + 3 <= Len(s) /\ \A k \in i..(i + 3) : IsDigit(s[k])

\* re.search(r"\d{4}", text) from position i on: the first run of four
\* digits, or "" for no match.
RECURSIVE FirstYearFrom(_, _)
FirstYearFrom(s, i) ==
  IF i + 3 > Len(s) THEN <<>>
  ELSE IF FourDigitsAt(s, i) THEN SubSeq(s, i, i + 3)
  ELSE FirstYearFrom(s, i + 1)

FirstYear(s) == FirstYearFrom(s, 1)

\* The year and the month, given the first token in word characters and
\* lower case, and the first run of four digits ("" for none).
MonthYearOf(month_raw, year) ==
  IF year = <<>> THEN Pair(<<>>, <<>>)
  ELSE IF month_raw \notin DOMAIN month_map THEN Pair(<<>>, <<>>)
  ELSE Pair(year, month_map[month_raw])

\* The year and the month of a stripped text, given its tokens.
MonthYearOfTokens(t, tokens) ==
  IF t = <<>> THEN Pair(<<>>, <<>>)
  ELSE IF Len(tokens) < 2 THEN Pair(<<>>, <<>>)
  ELSE MonthYearOf(Lower(WordCharsOf(tokens[1])), FirstYear(t))

\* The year and the month of a stripped text.
MonthYearOfText(t) == MonthYearOfTokens(t, WsSplit(CommasToSpaces(t)))

ParseMonthYear(text) ==
  IF ~IsStr(text) THEN Pair(<<>>, <<>>) ELSE MonthYearOfText(Strip(text.s))

\* A mutant: the date is formatted even when the year or the month is missing.
IsoDateUnguarded(y, m) == y \o <<"-">> \o m

\* f"{y}-{m}" if y and m else ""
IsoDate(y, m) == IF y # <<>> /\ m # <<>> THEN y \o <<"-">> \o m ELSE <<>>

\* re.search(r"present", text, re.IGNORECASE)
MentionsPresent(s) == Contains(Lower(s), <<"p","r","e","s","e","n","t">>)

\* start_iso, end_iso: the date of a (year, month) pair.
IsoDateOf(ym) == IsoDate(ym.v[1], ym.v[2])

\* end_iso: the end date of a stripped end text, "" when the text is empty
\* or mentions the present.
EndIso(end_raw) ==
  IF end_raw # <<>> /\ ~MentionsPresent(end_raw)
  THEN IsoDateOf(ParseMonthYear(Str(end_raw)))
  ELSE <<>>

\* The start and the end date from the pieces of the split.
RangeOfParts(parts) ==
  Pair(IsoDateOf(ParseMonthYear(Str(Strip(parts[1])))),
       EndIso(IF Len(parts) > 1 THEN Strip(parts[2]) ELSE <<>>))

\* The start and the end date of a stripped text.
RangeOfText(d) == IF d = <<>> THEN Pair(<<>>, <<>>) ELSE RangeOfParts(DateSplit(d))

ParseDateRange(dates) ==
  IF ~IsStr(dates) THEN Pair(<<>>, <<>>) ELSE RangeOfText(Strip(dates.s))

(***************************************************************************)
(* _split_degree_title                                                     *)
(***************************************************************************)
\* A match of \s+in\s+ (any letter case) that starts at position i: the
\* position after the match, or 0 for no match.
InWordMatch(s, i) ==
  IF i > Len(s) \/ ~IsSpace(s[i]) THEN 0
  ELSE LET j == SkipSpaces(s, i)
       IN IF /\ j + 2 <= Len(s)
             /\ LowerChar(s[j]) = "i"
             /\ LowerChar(s[j + 1]) = "n"
             /\ IsSpace(s[j + 2])
          THEN SkipSpaces(s, j + 2)
          ELSE 0

\* The pieces of s from position i on, the current piece having begun at
\* position start.
RECURSIVE InWordSplitFrom(_, _, _)
InWordSplitFrom(s, start, i) ==
  IF i > Len(s) THEN <<SubSeq(s, start, Len(s))>>
  ELSE IF InWordMatch(s, i) # 0
  THEN <<SubSeq(s, start, i - 1)>>
       \o InWordSplitFrom(s, InWordMatch(s, i), InWordMatch(s, i))
  ELSE InWordSplitFrom(s, start, i + 1)

\* re.split(r"\s+in\s+", s, flags=re.IGNORECASE): split at every match.
InWordSplit(s) == InWordSplitFrom(s, 1, 1)

\* A mutant: the area comes first in the pair returned.
DegreeOfPartsSwapped(t, parts) ==
  IF Len(parts) = 1 THEN Pair(t, <<>>)
  ELSE Pair(Strip(parts[2]), Strip(parts[1]))

\* The study type and the area, given the stripped title and its pieces.
DegreeOfParts(t, parts) ==
  IF Len(parts) = 1 THEN Pair(t, <<>>)
  ELSE Pair(Strip(parts[1]), Strip(parts[2]))

\* The study type and the area of a stripped title.
DegreeOfText(t) == IF t = <<>> THEN Pair(<<>>, <<>>) ELSE DegreeOfParts(t, InWordSplit(t))

SplitDegreeTitle(title) ==
  IF ~IsStr(title) THEN Pair(<<>>, <<>>) ELSE DegreeOfText(Strip(title.s))

(***************************************************************************)
(* Python's handling of loosely typed values.                              *)
(***************************************************************************)
\* bool(x): whether a value is truthy.
Truthy(x) ==
  CASE x.t = "null" -> FALSE
    [] x.t = "bool" -> x.b
    [] x.t = "num" -> x.n # 0
    [] x.t = "str" -> x.s # <<>>
    [] x.t = "list" -> x.xs # <<>>
    [] x.t = "dict" -> x.kvs # <<>>

\* x or d
Or(x, d) == IF Truthy(x) THEN x ELSE d

\* d.get(k), for a dict d: the value under the key k, or None.
Get(d, k) ==
  IF \A i \in 1..Len(d.kvs) : d.kvs[i][1] # k THEN None
  ELSE d.kvs[CHOOSE i \in 1..Len(d.kvs) : d.kvs[i][1] = k][2]

\* The decimal digits of a natural number.
RECURSIVE Decimal(_)
Decimal(n) ==
  IF n < 10 THEN <<AsciiPrintable[17 + n]>>
  ELSE Decimal(n \div 10) \o <<AsciiPrintable[17 + (n % 10)]>>

\* repr of a str: in single quotes, or in double quotes when the text holds
\* a single quote and no double quote; the quote and the backslash escaped.
QuoteOf(s) ==
  IF (\E i \in 1..Len(s) : s[i] = "'") /\ (\A i \in 1..Len(s) : s[i] # "DQ")
  THEN "DQ" ELSE "'"

RECURSIVE Escaped(_, _)
Escaped(s, q) ==
  IF s = <<>> THEN <<>>
  ELSE (IF Head(s) = q \/ Head(s) = "BS" THEN <<"BS", Head(s)>> ELSE <<Head(s)>>)
       \o Escaped(Tail(s), q)

\* repr(x), and the items of a list and of a dict joined by ", ".
RECURSIVE PyRepr(_)
RECURSIVE ReprItems(_)
RECURSIVE ReprPairs(_)
PyRepr(x) ==
  CASE x.t = "null" -> <<"N","o","n","e">>
    [] x.t = "bool" -> IF x.b THEN <<"T","r","u","e">> ELSE <<"F","a","l","s","e">>
    [] x.t = "num" -> IF x.n < 0 THEN <<"-">> \o Decimal(0 - x.n) ELSE Decimal(x.n)
    [] x.t = "str" -> <<QuoteOf(x.s)>> \o Escaped(x.s, QuoteOf(x.s)) \o <<QuoteOf(x.s)>>
    [] x.t = "list" -> <<"[">> \o ReprItems(x.xs) \o <<"]">>
    [] x.t = "dict" -> <<"{">> \o ReprPairs(x.kvs) \o <<"}">>

ReprItems(xs) ==
  IF xs = <<>> THEN <<>>
  ELSE PyRepr(Head(xs))
       \o (IF Len(xs) > 1 THEN <<",", " ">> ELSE <<>>) \o ReprItems(Tail(xs))

ReprPairs(kvs) ==
  IF kvs = <<>> THEN <<>>
  ELSE PyRepr([t |-> "str", s |-> Head(kvs)[1]]) \o <<":", " ">> \o PyRepr(Head(kvs)[2])
       \o (IF Len(kvs) > 1 THEN <<",", " ">> ELSE <<>>) \o ReprPairs(Tail(kvs))

\* str(x)
PyStr(x) == IF x.t = "str" THEN x.s ELSE PyRepr(x)

\* Whether "for item in x" works: a number or a boolean raises TypeError.
Iterable(x) == x.t \in {"list", "str", "dict"}

\* The items "for item in x" goes through: the elements of a list, the
\* characters of a str, the keys of a dict.
Items(x) ==
  CASE x.t = "list" -> x.xs
    [] x.t = "str" -> [i \in 1..Len(x.s) |-> [t |-> "str", s |-> <<x.s[i]>>]]
    [] x.t = "dict" -> [i \in 1..Len(x.kvs) |-> [t |-> "str", s |-> x.kvs[i][1]]]

\* A list of str from texts.
StrList(texts) == [t |-> "list", xs |-> [i \in 1..Len(texts) |-> [t |-> "str", s |-> texts[i]]]]

IsRaise(r) == r.t = "raise"

SchemaUrl ==
  <<"h","t","t","p","s",":","/","/","r","a","w",".","g","i","t","h","u","b","u","s","e","r","c","o","n","t","e","n","t",".","c","o","m","/","j","s","o","n","r","e","s","u","m","e","/","r","e","s","u","m","e","-","s","c","h","e","m","a","/","v","1",".","0",".","0","/","s","c","h","e","m","a",".","j","s","o","n">>

(***************************************************************************)
(* _bullet_texts and the converters.                                       *)
(***************************************************************************)
\* str(entry.get(k) or "").strip()
FieldText(entry, k) == Strip(PyStr(Or(Get(entry, k), Str(<<>>))))

\* A mutant: the field is emitted whether it is empty or not.
OptAlways(k, text) == << <<k, Str(text)>> >>

\* if text: out[k] = text
Opt(k, text) == IF text # <<>> THEN << <<k, Str(text)>> >> ELSE <<>>

\* if texts: out[k] = texts, for a list of str.
OptList(k, list) == IF list.xs # <<>> THEN << <<k, list>> >> ELSE <<>>

\* A mutant: a text that is no str is cast to one, as the other fields are.
BulletTextCast(b) ==
  IF IsDict(b) /\ Get(b, K.text) # None THEN Strip(PyStr(Get(b, K.text))) ELSE <<>>

\* The text of one bullet, "" when the bullet contributes nothing.
BulletText(b) ==
  IF IsDict(b) /\ IsStr(Get(b, K.text)) THEN Strip(Get(b, K.text).s) ELSE <<>>

\* The texts of the bullets that give one, in order.
EachBulletText(items) == [i \in 1..Len(items) |-> BulletText(items[i])]

\* The loop of _bullet_texts over bullets: a number or a boolean cannot be
\* gone through.
BulletTextsOf(bullets) ==
  IF ~Iterable(bullets) THEN Raise("TypeError")
  ELSE StrList(SelectSeq(EachBulletText(Items(bullets)), NonEmpty))

BulletTexts(entry) == BulletTextsOf(Or(Get(entry, K.bullets), List(<<>>)))

\* [str(t).strip() for t in items]
StrippedTexts(items) == [i \in 1..Len(items) |-> Strip(PyStr(items[i]))]

\* [str(t).strip() for t in tools if str(t).strip()]
ToolKeywords(tools) ==
  IF ~Iterable(tools) THEN Raise("TypeError")
  ELSE StrList(SelectSeq(StrippedTexts(Items(tools)), NonEmpty))

\* if city or region: basics_out["location"] = {"city": ..., "region": ...}
LocationField(place) ==
  IF place.v[1] # <<>> \/ place.v[2] # <<>>
  THEN << <<K.location, Dict(<< <<K.city, Str(place.v[1])>>,
                                <<K.region, Str(place.v[2])>> >>)>> >>
  ELSE <<>>

\* if profiles: basics_out["profiles"] = profiles
ProfilesField(profiles) ==
  IF profiles # <<>> THEN << <<K.profiles, List(profiles)>> >> ELSE <<>>

\* basics_out, for a dict basics.
BasicsOf(basics) ==
  Dict(<< <<K.name, Str(FieldText(basics, K.name))>> >>
       \o Opt(K.email, FieldText(basics, K.email))
       \o Opt(K.phone, FieldText(basics, K.phone))
       \o Opt(K.url, FieldText(basics, K.website))
       \o LocationField(ParseCityRegion(Str(FieldText(basics, K.location))))
       \o ProfilesField(SelectSeq(<<ParseLinkProfile(Str(FieldText(basics, K.linkedin))),
                                   ParseLinkProfile(Str(FieldText(basics, K.github)))>>,
                                  Truthy)))

ConvertBasics(basics_in) == BasicsOf(IF IsDict(basics_in) THEN basics_in ELSE Dict(<<>>))

\* One pass of a converter's loop: the entry's output, None when the entry
\* gives none (it is no dict, or all its fields are empty).
\* A mutant: the two dates are emitted whether they parsed or not.
DateFieldsAlways(span) ==
  << <<K.startDate, Str(span.v[1])>>, <<K.endDate, Str(span.v[2])>> >>

\* if start_date: ...["startDate"] = start_date; if end_date: ...["endDate"] = end_date
DateFields(span) == Opt(K.startDate, span.v[1]) \o Opt(K.endDate, span.v[2])

\* if area: edu["area"] = area; if study_type: edu["studyType"] = study_type
DegreeFields(degree) == Opt(K.area, degree.v[2]) \o Opt(K.studyType, degree.v[1])

EntryOfAlways(fields) == Dict(fields)

\* if edu: out.append(edu) -- the entry's output, None when it has no field.
EntryOf(fields) == IF fields = <<>> THEN None ELSE Dict(fields)

EducationEntry(entry) ==
  IF ~IsDict(entry) THEN None
  ELSE EntryOf(Opt(K.institution, FieldText(entry, K.name))
               \o DegreeFields(SplitDegreeTitle(Str(FieldText(entry, K.title))))
               \o DateFields(ParseDateRange(Str(FieldText(entry, K.dates))))
               \o Opt(K.location, FieldText(entry, K.location)))

\* The work entry, given the highlights and the keywords, either of which
\* may be the exception its loop raised.
WorkOf(entry, highlights, tool_keywords) ==
  IF IsRaise(highlights) THEN highlights
  ELSE IF IsRaise(tool_keywords) THEN tool_keywords
  ELSE EntryOf(Opt(K.name, FieldText(entry, K.name))
               \o Opt(K.position, FieldText(entry, K.title))
               \o Opt(K.location, FieldText(entry, K.location))
               \o DateFields(ParseDateRange(Str(FieldText(entry, K.dates))))
               \o OptList(K.highlights, highlights)
               \o OptList(K.keywords, tool_keywords))

ExperienceEntry(entry) ==
  IF ~IsDict(entry) THEN None
  ELSE WorkOf(entry, BulletTexts(entry), ToolKeywords(Or(Get(entry, K.tools), List(<<>>))))

\* The project entry, given the highlights and the keywords, either of
\* which may be the exception its loop raised.
ProjectOf(entry, highlights, tool_keywords) ==
  IF IsRaise(highlights) THEN highlights
  ELSE IF IsRaise(tool_keywords) THEN tool_keywords
  ELSE EntryOf(Opt(K.name, FieldText(entry, K.name))
               \o OptList(K.highlights, highlights)
               \o DateFields(ParseDateRange(Str(FieldText(entry, K.dates))))
               \o OptList(K.keywords, tool_keywords))

ProjectEntry(entry) ==
  IF ~IsDict(entry) THEN None
  ELSE ProjectOf(entry, BulletTexts(entry), ToolKeywords(Or(Get(entry, K.tools), List(<<>>))))

\* A mutant: each entry is put in front of the ones before it.
CollectedNewestFirst(outs) ==
  IF \E i \in 1..Len(outs) : IsRaise(outs[i]) THEN Raise("TypeError")
  ELSE List([i \in 1..Len(SelectSeq(outs, IsDict)) |->
               SelectSeq(outs, IsDict)[Len(SelectSeq(outs, IsDict)) + 1 - i]])

\* The outputs of the passes in order, or the exception that ended the loop.
Collected(outs) ==
  IF \E i \in 1..Len(outs) : IsRaise(outs[i]) THEN Raise("TypeError")
  ELSE List(SelectSeq(outs, IsDict))

\* for entry in entries or []: what the loop of a converter goes through.
Looped(entries) == Or(entries, List(<<>>))

\* The passes of the three loops over the items.
EachEducation(items) == [i \in 1..Len(items) |-> EducationEntry(items[i])]

EachExperience(items) == [i \in 1..Len(items) |-> ExperienceEntry(items[i])]

EachProject(items) == [i \in 1..Len(items) |-> ProjectEntry(items[i])]

\* The converters: a truthy value that is a number or a boolean cannot be
\* gone through.
ConvertEducation(entries) ==
  IF ~Iterable(Looped(entries)) THEN Raise("TypeError")
  ELSE Collected(EachEducation(Items(Looped(entries))))

ConvertExperience(entries) ==
  IF ~Iterable(Looped(entries)) THEN Raise("TypeError")
  ELSE Collected(EachExperience(Items(Looped(entries))))

ConvertProjects(entries) ==
  IF ~Iterable(Looped(entries)) THEN Raise("TypeError")
  ELSE Collected(EachProject(Items(Looped(entries))))

IsLetter(c) == IsUpper(c) \/ IsLower(c)

\* str.title(): a letter after a letter in lower case, any other in upper case.
Title(s) ==
  [i \in 1..Len(s) |->
     IF i > 1 /\ IsLetter(s[i - 1]) THEN LowerChar(s[i]) ELSE UpperChar(s[i])]

\* A mutant: the underscores of the key are kept.
SkillNameKeepsUnderscores(key) == Title(key)

\* str(key).replace("_", " ").title()
SkillName(key) == Title([i \in 1..Len(key) |-> IF key[i] = "_" THEN " " ELSE key[i]])

\* The keywords of one category.
SkillKeywords(value) ==
  IF IsList(value)
  THEN SelectSeq(StrippedTexts(value.xs), NonEmpty)
  ELSE StripAll(Split(PyStr(value), <<",">>))

\* The group of a category, given its keywords: None when there is none.
GroupOf(key, keywords) ==
  IF keywords = <<>> THEN None
  ELSE Dict(<< <<K.name, Str(SkillName(key))>>,
               <<K.level, Str(<<>>)>>,
               <<K.keywords, StrList(keywords)>> >>)

\* One pass of the loop of _convert_skills: the group, None when the
\* category gives none.
SkillGroup(key, value) == IF value = None THEN None ELSE GroupOf(key, SkillKeywords(value))

\* The groups of the categories in order.
EachGroup(kvs) == [i \in 1..Len(kvs) |-> SkillGroup(kvs[i][1], kvs[i][2])]

ConvertSkills(skills) ==
  IF ~IsDict(skills) THEN List(<<>>)
  ELSE List(SelectSeq(EachGroup(skills.kvs), IsDict))

(***************************************************************************)
(* to_json_resume                                                          *)
(***************************************************************************)
\* A mutant: a section that came out empty is left out of the document.
ResumeDocWithoutEmpty(basics_out, work_out, education_out, skills_out, projects_out) ==
  Dict(<< <<K.schema, Str(SchemaUrl)>>, <<K.basics, basics_out>> >>
       \o (IF work_out.xs # <<>> THEN << <<K.work, work_out>> >> ELSE <<>>)
       \o (IF education_out.xs # <<>> THEN << <<K.education, education_out>> >> ELSE <<>>)
       \o (IF skills_out.xs # <<>> THEN << <<K.skills, skills_out>> >> ELSE <<>>)
       \o (IF projects_out.xs # <<>> THEN << <<K.projects, projects_out>> >> ELSE <<>>))

\* The document to_json_resume builds.
ResumeDoc(basics_out, work_out, education_out, skills_out, projects_out) ==
  Dict(<< <<K.schema, Str(SchemaUrl)>>,
          <<K.basics, basics_out>>,
          <<K.work, work_out>>,
          <<K.education, education_out>>,
          <<K.skills, skills_out>>,
          <<K.projects, projects_out>> >>)

\* The outcome of the five converters: the exception of the first one that
\* raised (education, experience, projects, in the order of the calls), or
\* the document.
Converted(basics_out, work_out, education_out, skills_out, projects_out) ==
  IF IsRaise(education_out) THEN education_out
  ELSE IF IsRaise(work_out) THEN work_out
  ELSE IF IsRaise(projects_out) THEN projects_out
  ELSE ResumeDoc(basics_out, work_out, education_out, skills_out, projects_out)

\* to_json_resume on a text that json.loads turns into the value data, or
\* rejects ("invalid").  The text json.dumps returns is stood for by the
\* document it writes out, keys in insertion order.
ToJsonResume(data) ==
  IF data.t = "invalid" THEN Raise("JSONDecodeError")
  ELSE IF ~IsDict(data) THEN Raise("AttributeError")
  ELSE Converted(ConvertBasics(Or(Get(data, K.basics), Dict(<<>>))),
                 ConvertExperience(Or(Get(data, K.experience), List(<<>>))),
                 ConvertEducation(Or(Get(data, K.education), List(<<>>))),
                 ConvertSkills(Or(Get(data, K.skills), Dict(<<>>))),
                 ConvertProjects(Or(Get(data, K.projects), List(<<>>))))

(***************************************************************************)
(* Inputs.                                                                 *)
(***************************************************************************)
\* All sequences of at most n elements of A.
TextsUpTo(A, n) == UNION {[1..k -> A] : k \in 0..n}

\* The pieces of a sequence of texts, joined.
RECURSIVE Concat(_)
Concat(ps) == IF ps = <<>> THEN <<>> ELSE Head(ps) \o Concat(Tail(ps))

\* All texts made of at most n pieces of P.
Phrases(P, n) == {Concat(ps) : ps \in TextsUpTo(P, n)}

\* The texts of the examples the source and the specification give.
Example ==
  [NorthBrunswickNJ |->
     <<"N","o","r","t","h"," ","B","r","u","n","s","w","i","c","k",","," ","N","J">>,
   Remote |->
     <<"R","e","m","o","t","e">>,
   AustinTXUSA |->
     <<"A","u","s","t","i","n",","," ","T","X",","," ","U","S","A">>,
   GithubPCosby |->
     <<"h","t","t","p","s",":","/","/","g","i","t","h","u","b",".","c","o","m","/", "P","C","o","s","b","y","/">>,
   MastersTitle |->
     <<"M","a","s","t","e","r","s"," ","o","f"," ","E","n","g","i","n","e","e","r","i","n","g", " ","i","n"," ","C","o","m","p","u","t","e","r"," ","S","c","i","e","n","c","e">>,
   BSComputerScience |->
     <<"B","S"," ","C","o","m","p","u","t","e","r"," ","S","c","i","e","n","c","e">>,
   JunAug2023 |->
     <<"J","u","n"," ","2","0","2","3"," ","-"," ","A","u","g"," ","2","0","2","3">>,
   Jan2024Present |->
     <<"J","a","n"," ","2","0","2","4"," ","-"," ","P","r","e","s","e","n","t">>]

\* Values that are not a str.
NonStrings ==
  {None, Num(0), Num(5), Bool(TRUE), List(<<>>), List(<<Str(<<"a">>)>>), Dict(<<>>)}

MaxLocationLen == 4

LocationInputs ==
  {Str(s) : s \in TextsUpTo({"a", "b", ",", " "}, MaxLocationLen)}
  \cup {Str(Example.NorthBrunswickNJ), Str(Example.Remote), Str(Example.AustinTXUSA)}
  \cup NonStrings

MaxUrlPieces == 4

\* URLs made of at most MaxUrlPieces pieces, and values that are no str.
UrlInputs ==
  {Str(s) : s \in Phrases({<<"h","t","t","p","s",":","/","/">>,
                           <<"g","i","t","h","u","b",".","c","o","m">>,
                           <<"L","i","n","k","e","d","I","n",".","c","o","m">>,
                           <<"/">>, <<"P","C","o","s","b","y">>, <<" ">>},
                          MaxUrlPieces)}
  \cup {Str(Example.GithubPCosby)}
  \cup NonStrings

MaxTitlePieces == 5

TitleInputs ==
  {Str(s) : s \in Phrases({<<"B","S">>, <<" ","i","n"," ">>, <<" ","I","N"," ">>,
                           <<"C","S">>, <<" ">>, <<"i","n">>},
                          MaxTitlePieces)}
  \cup {Str(Example.MastersTitle), Str(Example.BSComputerScience)}
  \cup NonStrings

Years == {<<"2","0","2","3">>, <<"2","0","2","4">>}

\* "Mon YYYY", Mon a month name of the table as written there, or one of
\* three capitalised.
MonthYearTexts ==
  {m \o <<" ">> \o y :
     m \in DOMAIN MONTH_MAP \cup {<<"J","u","n">>, <<"A","u","g">>, <<"J","a","n">>},
     y \in Years}

\* The "Mon YYYY" texts that end a range.
EndMonthYearTexts ==
  {m \o <<" ">> \o y :
     m \in {<<"J","u","n">>, <<"A","u","g">>, <<"a","u","g","u","s","t">>,
            <<"s","e","p","t">>, <<"d","e","c">>, <<"j","a","n">>},
     y \in Years}

\* The three dashes, bare and with whitespace around them.
DashSeparators == {<<" ","-"," ">>, <<"-">>, <<" ","EN"," ">>, <<"EM">>}

\* "Mon YYYY - Mon YYYY"
ClosedRanges ==
  {a \o d \o b : a \in MonthYearTexts, d \in DashSeparators, b \in EndMonthYearTexts}

\* "Mon YYYY - Present"
OpenRanges ==
  {a \o d \o b :
     a \in MonthYearTexts, d \in DashSeparators,
     b \in {<<"P","r","e","s","e","n","t">>, <<"p","r","e","s","e","n","t">>,
            <<"t","o"," ","P","R","E","S","E","N","T"," ","d","a","y">>}}

\* Segments that are no month and year.
Unparsed == {<<"s","o","o","n">>, <<"S","u","m","m","e","r"," ","2","3">>}

\* Ranges of which one boundary is a "Mon YYYY" and the other is not.
HalfRanges ==
  {g \o d \o b : g \in Unparsed, d \in DashSeparators, b \in EndMonthYearTexts}
  \cup {a \o d \o g : a \in EndMonthYearTexts, d \in DashSeparators, g \in Unparsed}

MaxDateLen == 4

DateInputs ==
  {Str(s) : s \in ClosedRanges \cup OpenRanges \cup MonthYearTexts \cup HalfRanges}
  \cup {Str(s) : s \in TextsUpTo({"J", "2", " ", "-", ",", "+"}, MaxDateLen)}
  \cup NonStrings

MaxMonthYearPieces == 3

\* What _parse_month_year is given: texts made of month words, digits and
\* separators, the "Mon YYYY" texts, values that are no text.
MonthYearInputs ==
  {Str(s) : s \in Phrases({<<"J","a","n">>, <<"J","a","n",".">>, <<"s","e","p","t">>, <<"J","U","N","E">>,
                           <<"2","0","2","5">>, <<"1","9">>, <<"9">>, <<" ">>, <<",">>, <<"-">>, <<"x">>},
                          MaxMonthYearPieces)}
  \cup {Str(s) : s \in MonthYearTexts}
  \cup NonStrings

\* The texts _parse_date_range hands to _DATE_SPLIT_RE.split.
DateSplitInputs == {Str(Strip(d.s)) : d \in {x \in DateInputs : IsStr(x)}}

\* A field that the record does not have.
Absent == [t |-> "absent"]

IsPresent(kv) == kv[2].t # "absent"

\* The dict of the fields that are present.
Record(kvs) == Dict(SelectSeq(kvs, IsPresent))

BasicsInputs ==
  {Record(<< <<K.name, n>>, <<K.email, e>>, <<K.phone, p>>, <<K.location, l>>,
             <<K.website, w>>, <<K.linkedin, i>>, <<K.github, g>> >>) :
     n \in {Absent, Str(<<"A","l">>), Num(0)},
     e \in {Absent, Str(<<"a","@","b",".","c">>), Str(<<" ">>)},
     p \in {Absent, Num(5)},
     l \in {Absent, Str(Example.Remote), Str(Example.AustinTXUSA)},
     w \in {Absent, Str(<<"x",".","i","o">>)},
     i \in {Absent, Str(<<"L","i","n","k","e","d","I","n",".","c","o","m","/","i","n","/","a","l">>)},
     g \in {Absent, Str(<<"h","t","t","p","s",":","/","/">>), Str(Example.GithubPCosby)}}
  \cup {None, Num(5), Str(<<"a","b">>), List(<<>>)}

\* A bullet list: a record with text to trim, a record whose text is a
\* number, a str, a record with a blank text.
SomeBullets ==
  List(<<Record(<< <<K.id, Str(<<"b","1">>)>>, <<K.text, Str(<<" ","B","u","i","l","t"," ","x"," ">>)>> >>),
         Record(<< <<K.text, Num(1)>> >>),
         Str(<<"z">>),
         Record(<< <<K.text, Str(<<" ">>)>> >>)>>)

SomeTools == List(<<Str(<<"G","o">>), Str(<<" ">>), Num(3)>>)

OngoingJob ==
  Record(<< <<K.name, Str(<<"F","i","s","e","r","v">>)>>, <<K.dates, Str(Example.Jan2024Present)>> >>)

\* A job whose dates are no date and whose location is blank.
UndatedJob ==
  Record(<< <<K.name, Str(<<"A","c","m","e">>)>>, <<K.dates, Str(<<"s","o","o","n">>)>>,
            <<K.location, Str(<<" ">>)>> >>)

ExperienceEntries ==
  {Dict(<<>>),
   Record(<< <<K.name, Str(<<"F","i","s","e","r","v">>)>>,
             <<K.title, Str(<<"E","n","g","i","n","e","e","r">>)>>,
             <<K.location, Str(Example.NorthBrunswickNJ)>>,
             <<K.dates, Str(Example.JunAug2023)>>,
             <<K.tools, SomeTools>>,
             <<K.bullets, SomeBullets>> >>),
   OngoingJob,
   UndatedJob,
   Record(<< <<K.tools, Num(5)>> >>),
   Record(<< <<K.bullets, Num(5)>> >>),
   Record(<< <<K.tools, Str(<<"a","b">>)>> >>),
   Record(<< <<K.name, Num(0)>>, <<K.title, Bool(FALSE)>>, <<K.dates, None>> >>),
   Record(<< <<K.tools, List(<<>>)>>, <<K.bullets, List(<<Record(<< <<K.text, Str(<<" ">>)>> >>)>>)>> >>),
   Num(7)}

EducationEntries ==
  {Dict(<<>>),
   Record(<< <<K.name, Str(<<"C","o","r","n","e","l","l">>)>>,
             <<K.title, Str(Example.MastersTitle)>>,
             <<K.dates, Str(Example.JunAug2023)>>,
             <<K.location, Str(<<"I","t","h","a","c","a",","," ","N","Y">>)>>,
             <<K.gpa, Str(<<"3",".","9">>)>> >>),
   Record(<< <<K.title, Str(<<"B","S"," ","i","n"," ","C","S"," ","i","n"," ","C","S">>)>> >>),
   Record(<< <<K.name, Num(5)>>, <<K.dates, Str(<<"J","u","n"," ","2","0","2","3">>)>> >>),
   Record(<< <<K.name, Str(<<" ">>)>>, <<K.gpa, Str(<<"3",".","9">>)>> >>),
   Str(<<"x">>)}

ProjectEntries ==
  {Dict(<<>>),
   Record(<< <<K.name, Str(<<"R","e","s","u","m","e","B","o","t">>)>>,
             <<K.dates, Str(Example.Jan2024Present)>>,
             <<K.tools, SomeTools>>,
             <<K.bullets, SomeBullets>> >>),
   Record(<< <<K.tools, Num(5)>> >>),
   Record(<< <<K.bullets, Bool(TRUE)>> >>),
   Record(<< <<K.title, Str(<<"E","n","g","i","n","e","e","r">>)>>, <<K.location, Str(Example.Remote)>> >>),
   Num(1)}

MaxEntries == 2

\* What a section of entries may hold: nothing, a scalar, a dict, a list of
\* at most MaxEntries entries.
SectionInputs(Entries) ==
  {Absent, None, Num(5), Bool(TRUE), Str(<<"a","b">>), Dict(<<>>), Dict(<< <<K.name, Num(1)>> >>)}
  \cup {List(es) : es \in TextsUpTo(Entries, MaxEntries)}

\* The skills of the specification's example.
SomeSkills ==
  Dict(<< <<<<"p","r","o","g","r","a","m","m","i","n","g","_","l","a","n","g","u","a","g","e","s">>,
            List(<<Str(<<"P","y","t","h","o","n">>), Str(<<" ">>)>>)>> >>)

\* The categories: a key and the value under it.
SkillCategories ==
  {<<"p","r","o","g","r","a","m","m","i","n","g","_","l","a","n","g","u","a","g","e","s">>,
   <<"x">>, <<"X">>, <<>>, <<"w","e","b","3","_","A","I">>}
  \X {None, List(<<Str(<<"P","y","t","h","o","n">>), Str(<<" ">>)>>), Str(<<"a",","," ","b">>),
      Str(<<" ",","," ">>), Num(5), List(<<>>)}

MaxSkills == 2

SkillsInputs ==
  {Absent, None, Num(5), List(<<Str(<<"a">>)>>)}
  \cup {Dict(kvs) : kvs \in {c \in TextsUpTo(SkillCategories, MaxSkills) :
                              \A i, j \in 1..Len(c) : i # j => c[i][1] # c[j][1]}}

\* The raw record with the given sections.
RawRecord(b, ed, ex, pr, sk) ==
  Record(<< <<K.basics, b>>, <<K.education, ed>>, <<K.experience, ex>>,
            <<K.projects, pr>>, <<K.skills, sk>> >>)

\* What json.loads makes of the input text: a record in which one section
\* varies, a record that combines a few values of every section, a value
\* that is no record, or no value at all (the text is not JSON).
ParsedInputs ==
  {RawRecord(b, Absent, Absent, Absent, Absent) : b \in BasicsInputs \cup {Absent}}
  \cup {RawRecord(Absent, ed, Absent, Absent, Absent) : ed \in SectionInputs(EducationEntries)}
  \cup {RawRecord(Absent, Absent, ex, Absent, Absent) : ex \in SectionInputs(ExperienceEntries)}
  \cup {RawRecord(Absent, Absent, Absent, pr, Absent) : pr \in SectionInputs(ProjectEntries)}
  \cup {RawRecord(Absent, Absent, Absent, Absent, sk) : sk \in SkillsInputs}
  \cup {RawRecord(b, ed, ex, pr, sk) :
          b \in {None, Record(<< <<K.name, Str(<<"A","l">>)>>, <<K.location, Str(Example.Remote)>> >>)},
          ed \in {None, List(<<>>), List(<<Record(<< <<K.title, Str(Example.MastersTitle)>> >>)>>)},
          ex \in {Absent, List(<<>>), List(<<OngoingJob>>), Num(5)},
          pr \in {Absent, Dict(<<>>), List(<<Record(<< <<K.bullets, SomeBullets>> >>)>>)},
          sk \in {Absent, Dict(<<>>), SomeSkills}}
  \cup {None, Num(5), Str(<<"a","b">>), List(<<Dict(<<>>)>>), [t |-> "invalid"]}

(***************************************************************************)
(* The calls.                                                              *)
(***************************************************************************)
NoRet == [t |-> "pending"]

\* Nothing but the call itself is in play: the month table is the one the
\* module defines, no other call runs, no file is looked at.
Alone ==
  /\ month_map = MONTH_MAP /\ frames = <<>> /\ files = <<>> /\ proc = None
  /\ calls = <<>> /\ stdout = <<>>

Init ==
  /\ Alone
  /\ pc = "call"
  /\ ret = NoRet
  /\ \/ fn = "_parse_city_region" /\ arg \in LocationInputs
     \/ fn = "_parse_link_profile" /\ arg \in UrlInputs
     \/ fn = "_DATE_SPLIT_RE.split" /\ arg \in DateSplitInputs
     \/ fn = "_parse_date_range" /\ arg \in DateInputs
     \/ fn = "_split_degree_title" /\ arg \in TitleInputs
     \/ fn = "to_json_resume" /\ arg \in ParsedInputs
     \/ fn = "_convert_skills" /\ arg \in SkillsInputs \ {Absent}
     \/ fn = "_parse_month_year" /\ arg \in MonthYearInputs

CallParseCityRegion ==
  /\ pc = "call" /\ fn = "_parse_city_region"
  /\ ret' = ParseCityRegion(arg)
  /\ pc' = "done"
  /\ UNCHANGED <<fn, arg, month_map, calls, stdout, frames, files, proc>>

CallParseLinkProfile ==
  /\ pc = "call" /\ fn = "_parse_link_profile"
  /\ ret' = ParseLinkProfile(arg)
  /\ pc' = "done"
  /\ UNCHANGED <<fn, arg, month_map, calls, stdout, frames, files, proc>>

CallDateSplit ==
  /\ pc = "call" /\ fn = "_DATE_SPLIT_RE.split"
  /\ ret' = StrList(DateSplit(arg.s))
  /\ pc' = "done"
  /\ UNCHANGED <<fn, arg, month_map, calls, stdout, frames, files, proc>>

CallParseDateRange ==
  /\ pc = "call" /\ fn = "_parse_date_range"
  /\ ret' = ParseDateRange(arg)
  /\ pc' = "done"
  /\ UNCHANGED <<fn, arg, month_map, calls, stdout, frames, files, proc>>

CallSplitDegreeTitle ==
  /\ pc = "call" /\ fn = "_split_degree_title"
  /\ ret' = SplitDegreeTitle(arg)
  /\ pc' = "done"
  /\ UNCHANGED <<fn, arg, month_map, calls, stdout, frames, files, proc>>

CallToJsonResume ==
  /\ pc = "call" /\ fn = "to_json_resume"
  /\ ret' = ToJsonResume(arg)
  /\ pc' = "done"
  /\ UNCHANGED <<fn, arg, month_map, calls, stdout, frames, files, proc>>

CallConvertSkills ==
  /\ pc = "call" /\ fn = "_convert_skills"
  /\ ret' = ConvertSkills(arg)
  /\ pc' = "done"
  /\ UNCHANGED <<fn, arg, month_map, calls, stdout, frames, files, proc>>

CallParseMonthYear ==
  /\ pc = "call" /\ fn = "_parse_month_year"
  /\ ret' = ParseMonthYear(arg)
  /\ pc' = "done"
  /\ UNCHANGED <<fn, arg, month_map, calls, stdout, frames, files, proc>>

Next ==
  \/ CallParseCityRegion
  \/ CallParseLinkProfile
  \/ CallDateSplit
  \/ CallParseDateRange
  \/ CallSplitDegreeTitle
  \/ CallToJsonResume
  \/ CallConvertSkills
  \/ CallParseMonthYear

Spec == Init /\ [][Next]_vars

\* The call of f has returned.
Returned(f) == pc = "done" /\ fn = f

(***************************************************************************)
(* to_json_resume called by several callers at once.  Each call has its    *)
(* own frame of local variables; the month table is the one object the     *)
(* calls have in common.  A step is one statement of lines 443-469.        *)
(***************************************************************************)
Callers == {"a", "b"}

\* A job with bullets and tools.
BusyJob ==
  Record(<< <<K.name, Str(<<"L","a","b">>)>>, <<K.tools, SomeTools>>, <<K.bullets, SomeBullets>> >>)

\* What the callers pass: two records with every section, one record for
\* each converter that raises, a value that is no record, a text that is
\* not JSON.
ConcurrentInputs ==
  {RawRecord(Record(<< <<K.name, Str(<<"A","l">>)>>, <<K.location, Str(Example.Remote)>> >>),
             List(<<Record(<< <<K.title, Str(Example.MastersTitle)>> >>)>>),
             List(<<OngoingJob, Dict(<<>>), BusyJob, UndatedJob>>),
             List(<<Record(<< <<K.name, Str(<<"p">>)>> >>), Record(<< <<K.bullets, SomeBullets>> >>)>>),
             SomeSkills),
   RawRecord(None, Absent, List(<<UndatedJob, OngoingJob>>), Absent,
             Dict(<< <<<<"x">>, Str(<<"b",",","a">>)>>, <<<<"a">>, List(<<Str(<<"c">>)>>)>> >>)),
   RawRecord(Absent, Num(5), Absent, Absent, Absent),
   RawRecord(Absent, Absent, Bool(TRUE), Absent, Absent),
   RawRecord(Absent, Absent, Absent, List(<<Record(<< <<K.tools, Num(5)>> >>)>>), Absent),
   Num(5),
   [t |-> "invalid"]}

\* The frame of a call that has just been made with the text given.
NewFrame(text) ==
  [pc |-> "call", text |-> text, data |-> NoRet,
   basics_in |-> NoRet, education_in |-> NoRet, experience_in |-> NoRet,
   projects_in |-> NoRet, skills_in |-> NoRet,
   basics_out |-> NoRet, education_out |-> NoRet, work_out |-> NoRet,
   projects_out |-> NoRet, skills_out |-> NoRet, ret |-> NoRet]

InitConcurrent ==
  /\ month_map = MONTH_MAP /\ files = <<>> /\ proc = None
  /\ calls = <<>> /\ stdout = <<>>
  /\ pc = "callers" /\ fn = "to_json_resume" /\ arg = None /\ ret = NoRet
  /\ frames \in {[c \in Callers |-> NewFrame(texts[c])] : texts \in [Callers -> ConcurrentInputs]}

\* A mutant: the variables of to_json_resume are module-level names, one
\* for all the calls.
AssignedGlobal(c, name, value) == [d \in Callers |-> [frames[d] EXCEPT ![name] = value]]

\* The frames after the call c has assigned value to its local variable.
Assigned(c, name, value) == [frames EXCEPT ![c][name] = value]

\* The call c goes on at the statement next.
GoesOn(fs, c, next) == [fs EXCEPT ![c].pc = next]

\* The call c ends: it returns the value, or raises it.
Ends(c, value) == [frames EXCEPT ![c].ret = value, ![c].pc = "done"]

\* The five data.get(...) or default of a record.
Got(c, data) ==
  [frames EXCEPT ![c].basics_in = Or(Get(data, K.basics), Dict(<<>>)),
                 ![c].education_in = Or(Get(data, K.education), List(<<>>)),
                 ![c].experience_in = Or(Get(data, K.experience), List(<<>>)),
                 ![c].projects_in = Or(Get(data, K.projects), List(<<>>)),
                 ![c].skills_in = Or(Get(data, K.skills), Dict(<<>>))]

\* The frames after one converter call: its result is assigned, or its
\* exception ends the call.
AfterConverter(c, name, value, next) ==
  IF IsRaise(value) THEN Ends(c, value) ELSE GoesOn(Assigned(c, name, value), c, next)

\* data = json.loads(modified_resume_json_str)
Loads(c) ==
  /\ frames[c].pc = "call"
  /\ frames' = IF frames[c].text.t = "invalid" THEN Ends(c, Raise("JSONDecodeError"))
               ELSE GoesOn(Assigned(c, "data", frames[c].text), c, "loaded")
  /\ UNCHANGED <<pc, fn, arg, ret, month_map, calls, stdout, files, proc>>

\* basics_in = data.get("basics") or {} ... skills_in = data.get("skills") or {}
Gets(c) ==
  /\ frames[c].pc = "loaded"
  /\ frames' = IF ~IsDict(frames[c].data) THEN Ends(c, Raise("AttributeError"))
               ELSE GoesOn(Got(c, frames[c].data), c, "got")
  /\ UNCHANGED <<pc, fn, arg, ret, month_map, calls, stdout, files, proc>>

\* basics_out = _convert_basics(basics_in)
Basics(c) ==
  /\ frames[c].pc = "got"
  /\ frames' = AfterConverter(c, "basics_out", ConvertBasics(frames[c].basics_in), "basics")
  /\ UNCHANGED <<pc, fn, arg, ret, month_map, calls, stdout, files, proc>>

\* education_out = _convert_education(education_in)
Education(c) ==
  /\ frames[c].pc = "basics"
  /\ frames' = AfterConverter(c, "education_out", ConvertEducation(frames[c].education_in), "education")
  /\ UNCHANGED <<pc, fn, arg, ret, month_map, calls, stdout, files, proc>>

\* work_out = _convert_experience(experience_in)
Work(c) ==
  /\ frames[c].pc = "education"
  /\ frames' = AfterConverter(c, "work_out", ConvertExperience(frames[c].experience_in), "work")
  /\ UNCHANGED <<pc, fn, arg, ret, month_map, calls, stdout, files, proc>>

\* projects_out = _convert_projects(projects_in)
Projects(c) ==
  /\ frames[c].pc = "work"
  /\ frames' = AfterConverter(c, "projects_out", ConvertProjects(frames[c].projects_in), "projects")
  /\ UNCHANGED <<pc, fn, arg, ret, month_map, calls, stdout, files, proc>>

\* skills_out = _convert_skills(skills_in)
Skills(c) ==
  /\ frames[c].pc = "projects"
  /\ frames' = AfterConverter(c, "skills_out", ConvertSkills(frames[c].skills_in), "skills")
  /\ UNCHANGED <<pc, fn, arg, ret, month_map, calls, stdout, files, proc>>

\* resume = {...}; return json.dumps(resume, ensure_ascii=False, indent=2)
Dumps(c) ==
  /\ frames[c].pc = "skills"
  /\ frames' = Ends(c, ResumeDoc(frames[c].basics_out, frames[c].work_out, frames[c].education_out,
                                 frames[c].skills_out, frames[c].projects_out))
  /\ UNCHANGED <<pc, fn, arg, ret, month_map, calls, stdout, files, proc>>

NextConcurrent ==
  \E c \in Callers :
    \/ Loads(c)
    \/ Gets(c)
    \/ Basics(c)
    \/ Education(c)
    \/ Work(c)
    \/ Projects(c)
    \/ Skills(c)
    \/ Dumps(c)

Concurrent == InitConcurrent /\ [][NextConcurrent]_vars

\* The call of the caller c is over.
Done(c) == frames[c].pc = "done"

(***************************************************************************)
(* json_resume_to_pdf, one statement at a time.  files is what is on disk: *)
(* whether the theme folder and the resume-cli binary in it exist, what    *)
(* resume.json and resume.pdf in the folder and the file at output_path    *)
(* hold ("none" for a missing file), whether the output folder can be      *)
(* written.  proc is the finished renderer process.                        *)
(***************************************************************************)
\* The theme: the default of json_resume_to_pdf, or what compile_resume_pdf
\* passes, the value of RESUME_THEME or None when it is not set.
Themes == {Str(<<"e","l","e","g","a","n","t">>), Str(<<"f","l","a","t">>), None}

\* The renderer's exit codes.
ReturnCodes == {0, 1}

InitRendering ==
  /\ month_map = MONTH_MAP /\ frames = <<>>
  /\ calls = <<>> /\ stdout = <<>>
  /\ pc = "THEME_DIR.exists" /\ fn = "json_resume_to_pdf" /\ ret = NoRet /\ proc = None
  /\ arg \in [json_resume_text : {"r1", "r2"}, theme : Themes]
  /\ files \in [theme_dir : BOOLEAN, resume_cmd : BOOLEAN, resume_json : {"none", "old"},
                resume_pdf : {"none", "stale"}, output : {"none", "old"},
                output_writable : BOOLEAN]
  /\ ~files.theme_dir =>
       (~files.resume_cmd /\ files.resume_json = "none" /\ files.resume_pdf = "none")

\* The call raises.
Raises(e) == ret' = Raise(e) /\ pc' = "done"

\* A mutant: the exit code of the renderer is not looked at.
FailedNever(p) == FALSE

\* proc.returncode != 0
Failed(p) == p.returncode # 0

\* if not THEME_DIR.exists(): raise RuntimeError(...)
ThemeDirExists ==
  /\ pc = "THEME_DIR.exists" /\ fn = "json_resume_to_pdf"
  /\ IF ~files.theme_dir THEN Raises("RuntimeError")
     ELSE pc' = "write_text" /\ ret' = ret
  /\ UNCHANGED <<fn, arg, month_map, calls, stdout, frames, files, proc>>

\* resume_json_path.write_text(json_resume_text, encoding="utf-8")
WriteText ==
  /\ pc = "write_text"
  /\ files' = [files EXCEPT !.resume_json = arg.json_resume_text]
  /\ pc' = "subprocess.run"
  /\ UNCHANGED <<fn, arg, ret, month_map, calls, stdout, frames, proc>>

\* proc = subprocess.run(cmd, cwd=THEME_DIR, ...): a theme of None in cmd
\* is a TypeError, a missing binary a FileNotFoundError; the renderer exits
\* with any code, and has or has not written resume.pdf.
Run ==
  /\ pc = "subprocess.run"
  /\ IF arg.theme = None THEN Raises("TypeError") /\ UNCHANGED <<files, proc>>
     ELSE IF ~files.resume_cmd THEN Raises("FileNotFoundError") /\ UNCHANGED <<files, proc>>
     ELSE /\ \E code \in ReturnCodes : proc' = [returncode |-> code]
          /\ \E pdf \in {files.resume_pdf, "new"} : files' = [files EXCEPT !.resume_pdf = pdf]
          /\ pc' = "returncode" /\ ret' = ret
  /\ UNCHANGED <<fn, arg, month_map, calls, stdout, frames>>

\* if proc.returncode != 0: raise RuntimeError(...)
ReturnCode ==
  /\ pc = "returncode"
  /\ IF Failed(proc) THEN Raises("RuntimeError")
     ELSE pc' = "tmp_pdf_path.exists" /\ ret' = ret
  /\ UNCHANGED <<fn, arg, month_map, calls, stdout, frames, files, proc>>

\* if not tmp_pdf_path.exists(): raise FileNotFoundError(...)
PdfExists ==
  /\ pc = "tmp_pdf_path.exists"
  /\ IF files.resume_pdf = "none" THEN Raises("FileNotFoundError")
     ELSE pc' = "copy2" /\ ret' = ret
  /\ UNCHANGED <<fn, arg, month_map, calls, stdout, frames, files, proc>>

\* output_path.parent.mkdir(...); shutil.copy2(tmp_pdf_path, output_path);
\* return output_path
Copy ==
  /\ pc = "copy2"
  /\ IF ~files.output_writable THEN Raises("PermissionError") /\ files' = files
     ELSE /\ files' = [files EXCEPT !.output = files.resume_pdf]
          /\ ret' = [t |-> "path", p |-> "output_path"]
          /\ pc' = "done"
  /\ UNCHANGED <<fn, arg, month_map, calls, stdout, frames, proc>>

NextRendering ==
  \/ ThemeDirExists
  \/ WriteText
  \/ Run
  \/ ReturnCode
  \/ PdfExists
  \/ Copy

Rendering == InitRendering /\ [][NextRendering]_vars

(***************************************************************************)
(* run_resume_bot.py: the script that runs the steps one after another.    *)
(***************************************************************************)

\* What out/selected.txt can be: not there, bytes that are not UTF-8, or a
\* text.
SelectedFiles ==
  {Absent, [t |-> "invalid"], Str(<<>>), Str(<<" ", " ">>), Str(<<"j", "o", "b">>)}

\* What the environment can hold under MAKE_COVER_LETTER: nothing, or a text.
CoverLetterSettings ==
  {Absent, Str(<<"T", "r", "u", "e">>), Str(<<"t">>), Str(<<"1">>),
   Str(<<"F", "a", "l", "s", "e">>), Str(<<"y", "e", "s">>), Str(<<>>)}

\* MAKE_COVER_LETTER = os.getenv("MAKE_COVER_LETTER", "False").lower()
\*                       in ["t", "true", "1"]
MAKE_COVER_LETTER(env) ==
  Lower(IF env = Absent THEN <<"F", "a", "l", "s", "e">> ELSE env.s)
    \in {<<"t">>, <<"t", "r", "u", "e">>, <<"1">>}

\* The exceptions a helper lets out: those of the model client, of
\* json.loads and of a subscript on its result, of to_json_resume, of
\* json_resume_to_pdf and markdown_to_pdf, of write_to_file and of
\* webbrowser.
Raisable(step) ==
  CASE step = "extract_job_info" -> {"ResponseError", "OSError"}
    [] step = "modify_resume_info" -> {"ResponseError", "JSONDecodeError", "TypeError"}
    [] step = "finalize_resume_info" -> {"JSONDecodeError", "AttributeError", "TypeError"}
    [] step = "compile_resume_pdf" ->
         {"TypeError", "FileNotFoundError", "RuntimeError", "PermissionError"}
    [] step = "generate_cover_letter" -> {"ResponseError", "JSONDecodeError", "KeyError"}
    [] step = "compile_cover_letter_pdf" ->
         {"TypeError", "FileNotFoundError", "CalledProcessError"}
    [] step = "open_pdf" -> {"Error"}

AfterSwallowed(outcome, next) == next

\* Where the script is after a call: at its next statement when the call
\* returned, in the except clause when it raised.
After(outcome, next) == IF outcome = "returned" THEN next ELSE "except"

\* print(starting); helper.step(given); print(finished)
Runs(step, given, starting, finished, next) ==
  \E outcome \in {"returned"} \cup Raisable(step) :
    /\ calls' = Append(calls, [step |-> step, arg |-> given, outcome |-> outcome])
    /\ pc' = After(outcome, next)
    /\ IF outcome = "returned"
       THEN stdout' = stdout \o <<starting, finished>> /\ ret' = ret
       ELSE stdout' = Append(stdout, starting) /\ ret' = Raise(outcome)
    /\ UNCHANGED <<fn, arg, month_map, frames, files, proc>>

InitOrchestration ==
  /\ month_map = MONTH_MAP /\ frames = <<>> /\ files = <<>> /\ proc = None
  /\ calls = <<>> /\ stdout = <<>>
  /\ pc = "selection_file.exists" /\ fn = "run_resume_bot" /\ ret = NoRet
  /\ arg \in [selected : SelectedFiles, MAKE_COVER_LETTER : CoverLetterSettings]

\* if not selection_file.exists(): print(f"ERROR: File not found: ...")
SelectionFileExists ==
  /\ pc = "selection_file.exists"
  /\ IF arg.selected = Absent
     THEN stdout' = Append(stdout, "ERROR: File not found: {selection_file}") /\ pc' = "done"
     ELSE stdout' = stdout /\ pc' = "read_text"
  /\ UNCHANGED <<fn, arg, ret, month_map, calls, frames, files, proc>>

\* text = selection_file.read_text(encoding="utf-8")
ReadText ==
  /\ pc = "read_text"
  /\ IF arg.selected.t = "invalid"
     THEN pc' = "except" /\ ret' = Raise("UnicodeDecodeError")
     ELSE pc' = "text.strip" /\ ret' = ret
  /\ UNCHANGED <<fn, arg, month_map, calls, stdout, frames, files, proc>>

\* if text.strip(): ... else: print("ERROR: selected.txt is empty.")
TextStrip ==
  /\ pc = "text.strip"
  /\ IF Strip(arg.selected.s) # <<>>
     THEN stdout' = stdout /\ pc' = "extract_job_info"
     ELSE stdout' = Append(stdout, "ERROR: selected.txt is empty.") /\ pc' = "done"
  /\ UNCHANGED <<fn, arg, ret, month_map, calls, frames, files, proc>>

\* job_info = helper.extract_job_info(text)
ExtractJobInfo ==
  /\ pc = "extract_job_info"
  /\ Runs("extract_job_info", "text", "Starting job info extraction...",
          "[DONE] Job info extracted", "modify_resume_info")

\* modified_resume_info = helper.modify_resume_info(job_info)
ModifyResumeInfo ==
  /\ pc = "modify_resume_info"
  /\ Runs("modify_resume_info", "job_info", "Starting resume modification...",
          "[DONE] Resume info modified", "finalize_resume_info")

\* finalized_resume_info = helper.finalize_resume_info(modified_resume_info)
FinalizeResumeInfo ==
  /\ pc = "finalize_resume_info"
  /\ Runs("finalize_resume_info", "modified_resume_info", "Finalizing resume...",
          "[DONE] Resume finalized", "compile_resume_pdf")

\* resume_path = helper.compile_resume_pdf(finalized_resume_info)
CompileResumePdf ==
  /\ pc = "compile_resume_pdf"
  /\ Runs("compile_resume_pdf", "finalized_resume_info", "Compiling Resume MD -> PDF...",
          "[DONE] Resume PDF written", "MAKE_COVER_LETTER")

\* if MAKE_COVER_LETTER: ... else: print("[INFO] Skipping Cover letter...")
IfMakeCoverLetter ==
  /\ pc = "MAKE_COVER_LETTER"
  /\ IF MAKE_COVER_LETTER(arg.MAKE_COVER_LETTER)
     THEN stdout' = stdout /\ pc' = "generate_cover_letter"
     ELSE stdout' = Append(stdout, "[INFO] Skipping Cover letter...") /\ pc' = "open_pdf"
  /\ UNCHANGED <<fn, arg, ret, month_map, calls, frames, files, proc>>

\* cover_letter = helper.generate_cover_letter(job_info, finalized_resume_info)
GenerateCoverLetter ==
  /\ pc = "generate_cover_letter"
  /\ Runs("generate_cover_letter", "job_info, finalized_resume_info",
          "Starting cover letter generation...", "[DONE] Cover letter generated",
          "compile_cover_letter_pdf")

\* cover_letter_path = helper.compile_cover_letter_pdf(cover_letter)
CompileCoverLetterPdf ==
  /\ pc = "compile_cover_letter_pdf"
  /\ Runs("compile_cover_letter_pdf", "cover_letter", "Compiling Cover Letter MD -> PDF...",
          "[DONE] Cover letter PDF written", "open_pdf(cover_letter_path)")

\* helper.open_pdf(cover_letter_path)
OpenCoverLetterPdf ==
  /\ pc = "open_pdf(cover_letter_path)"
  /\ Runs("open_pdf", "cover_letter_path", "Opening cover letter PDF...",
          "[DONE] Cover letter PDF opened", "open_pdf")

\* helper.open_pdf(resume_path)
OpenResumePdf ==
  /\ pc = "open_pdf"
  /\ Runs("open_pdf", "resume_path", "Opening resume PDF...", "[DONE] PDF opened",
          "Completed")

\* print("Completed.")
Completed ==
  /\ pc = "Completed"
  /\ stdout' = Append(stdout, "Completed.")
  /\ pc' = "done"
  /\ UNCHANGED <<fn, arg, ret, month_map, calls, frames, files, proc>>

\* except Exception as e: print(f"ERROR: {e}")
Except ==
  /\ pc = "except"
  /\ stdout' = Append(stdout, "ERROR: {e}")
  /\ pc' = "done"
  /\ UNCHANGED <<fn, arg, ret, month_map, calls, frames, files, proc>>

NextOrchestration ==
  \/ SelectionFileExists
  \/ ReadText
  \/ TextStrip
  \/ ExtractJobInfo
  \/ ModifyResumeInfo
  \/ FinalizeResumeInfo
  \/ CompileResumePdf
  \/ IfMakeCoverLetter
  \/ GenerateCoverLetter
  \/ CompileCoverLetterPdf
  \/ OpenCoverLetterPdf
  \/ OpenResumePdf
  \/ Completed
  \/ Except

Orchestration == InitOrchestration /\ [][NextOrchestration]_vars

(***************************************************************************)
(* helper.py: modify_resume_info, one model call for each base entry.      *)
(* A JSON text is written as the value it stands for, a text that is not   *)
(* JSON as [t |-> "invalid"].                                              *)
(***************************************************************************)

\* d.get(k, default)
GetOr(d, k, default) ==
  IF \A i \in 1..Len(d.kvs) : d.kvs[i][1] # k THEN default ELSE Get(d, k)

\* d[k] = v: in place when d has the key, at the end when it has not.
SetItem(d, k, v) ==
  IF \A i \in 1..Len(d.kvs) : d.kvs[i][1] # k THEN Dict(Append(d.kvs, <<k, v>>))
  ELSE Dict([i \in 1..Len(d.kvs) |-> IF d.kvs[i][1] = k THEN <<k, v>> ELSE d.kvs[i]])

\* Entries of config/templates/base_resume.yml, with and without tools.
BaseEntries ==
  [Acme |-> Dict(<< <<K.name, Str(<<"A","c","m","e">>)>>,
                    <<K.tools, List(<<Str(<<"G","o">>)>>)>> >>),
   Bolt |-> Dict(<< <<K.name, Str(<<"B","o","l","t">>)>> >>),
   Cli  |-> Dict(<< <<K.tools, List(<<Str(<<"C">>), Str(<<"G","o">>)>>)>>,
                    <<K.name, Str(<<"C","l","i">>)>> >>)]

\* What base_resume.yml can hold: each section there or not, the lists of
\* entries empty, null, or of one or two entries.
BaseResumes ==
  {Record(<< <<K.basics, b>>, <<K.education, ed>>, <<K.experience, ex>>,
             <<K.projects, pr>>, <<K.skills, Dict(<<>>)>> >>) :
     b \in {Absent, Dict(<< <<K.name, Str(<<"A","l">>)>> >>)},
     ed \in {Absent, List(<<Dict(<< <<K.name, Str(<<"M","I","T">>)>> >>)>>)},
     ex \in {Absent, None, List(<<BaseEntries.Acme>>),
             List(<<BaseEntries.Acme, BaseEntries.Bolt>>),
             List(<<BaseEntries.Bolt, BaseEntries.Acme>>)},
     pr \in {Absent, List(<<>>), List(<<BaseEntries.Cli>>)}}

\* What ollama_client.run gives for an entry: an exception, a text that is
\* not JSON, an object with tools of its own, an object without tools, or
\* JSON that is not an object.
ModelResponses ==
  {Raise("ResponseError"), [t |-> "invalid"],
   Dict(<< <<K.name, Str(<<"N","e","w">>)>>, <<K.tools, List(<<Str(<<"R","u","s","t">>)>>)>> >>),
   Dict(<< <<K.title, Str(<<"D","e","v">>)>> >>),
   List(<<>>)}

\* What ollama_client.run gives for the skills.
SkillsResponses ==
  {Raise("ResponseError"), [t |-> "invalid"],
   Dict(<< <<K.skills, Dict(<< <<K.tools, List(<<Str(<<"G","o">>)>>)>> >>)>> >>),
   Dict(<<>>), List(<<>>)}

InitTailoring ==
  /\ month_map = MONTH_MAP /\ proc = None /\ stdout = <<>>
  /\ calls = <<>> /\ files = <<>>
  /\ pc = "_load_base_resume_yaml" /\ fn = "modify_resume_info" /\ ret = NoRet
  /\ arg \in [job_info : {[t |-> "invalid"], Dict(<<>>)}, base_resume : BaseResumes]
  /\ frames = [base_resume |-> None, modified_resume |-> None, section |-> None,
               entries |-> None, i |-> 0]

\* base_resume = _load_base_resume_yaml(); modified_resume = {}
LoadBaseResume ==
  /\ pc = "_load_base_resume_yaml"
  /\ frames' = [frames EXCEPT !.base_resume = arg.base_resume, !.modified_resume = Dict(<<>>)]
  /\ pc' = "copy"
  /\ UNCHANGED <<fn, arg, ret, month_map, calls, stdout, files, proc>>

\* modified_resume[section] = base_resume.get(section, {}) for basics and
\* education
CopiedThrough(base_resume) ==
  Dict(<< <<K.basics, GetOr(base_resume, K.basics, Dict(<<>>))>>,
          <<K.education, GetOr(base_resume, K.education, Dict(<<>>))>> >>)

\* The two copies, and modified_resume["experience"] = [];
\* modified_resume["projects"] = []
CopySections ==
  /\ pc = "copy"
  /\ frames' = [frames EXCEPT
       !.modified_resume =
          SetItem(SetItem(CopiedThrough(frames.base_resume), K.experience, List(<<>>)),
                  K.projects, List(<<>>)),
       !.section = 1]
  /\ pc' = "for section"
  /\ UNCHANGED <<fn, arg, ret, month_map, calls, stdout, files, proc>>

\* for section in ("experience", "projects")
TailoredSections == <<K.experience, K.projects>>

\* entries = base_resume.get(section, []) or []
ForSection ==
  /\ pc = "for section"
  /\ IF frames.section > Len(TailoredSections)
     THEN pc' = "_modify_skills_info" /\ frames' = frames
     ELSE /\ frames' = [frames EXCEPT
               !.entries = Or(GetOr(frames.base_resume, TailoredSections[frames.section],
                                    List(<<>>)), List(<<>>)),
               !.i = 1]
          /\ pc' = "for entry"
  /\ UNCHANGED <<fn, arg, ret, month_map, calls, stdout, files, proc>>

TailoredAsReturned(entry_obj, entry) == entry_obj

\* entry_obj["tools"] = entry.get("tools", [])
Tailored(entry_obj, entry) == SetItem(entry_obj, K.tools, GetOr(entry, K.tools, List(<<>>)))

\* modified_resume[section].append(entry_obj)
Appended(modified_resume, section, entry_obj) ==
  SetItem(modified_resume, section, List(Append(Get(modified_resume, section).xs, entry_obj)))

\* One turn of for entry in entries: the prompt, the model call,
\* json.loads of the response, the tools, the append and the print; after
\* the last entry the next section.
TailorEntry ==
  /\ pc = "for entry"
  /\ IF frames.i > Len(frames.entries.xs)
     THEN /\ frames' = [frames EXCEPT !.section = frames.section + 1]
          /\ pc' = "for section"
          /\ UNCHANGED <<ret, calls, stdout>>
     ELSE \E response \in ModelResponses :
            /\ calls' = Append(calls, [section |-> TailoredSections[frames.section],
                                       entry |-> frames.entries.xs[frames.i],
                                       response |-> response])
            /\ IF response.t = "raise"
               THEN ret' = response /\ pc' = "done" /\ UNCHANGED <<frames, stdout>>
               ELSE IF response.t = "invalid"
               THEN ret' = Raise("JSONDecodeError") /\ pc' = "done" /\ UNCHANGED <<frames, stdout>>
               ELSE IF ~IsDict(response)
               THEN ret' = Raise("TypeError") /\ pc' = "done" /\ UNCHANGED <<frames, stdout>>
               ELSE /\ frames' = [frames EXCEPT
                         !.modified_resume =
                            Appended(frames.modified_resume, TailoredSections[frames.section],
                                     Tailored(response, frames.entries.xs[frames.i])),
                         !.i = frames.i + 1]
                    /\ stdout' = Append(stdout, "[INFO] Tailored {section} entry added.")
                    /\ ret' = ret /\ pc' = "for entry"
  /\ UNCHANGED <<fn, arg, month_map, files, proc>>

\* modified_skills = json.loads(_modify_skills_info(job_info));
\* modified_resume["skills"] = modified_skills.get("skills", {}), with
\* _modify_skills_info: json.loads(job_info), the model call, json.loads
\* of the response, modified_skills.json.
ModifySkills ==
  /\ pc = "_modify_skills_info"
  /\ IF arg.job_info.t = "invalid"
     THEN ret' = Raise("JSONDecodeError") /\ pc' = "done" /\ UNCHANGED <<frames, calls, files>>
     ELSE \E response \in SkillsResponses :
            /\ calls' = Append(calls, [section |-> K.skills,
                                       entry |-> GetOr(arg.base_resume, K.skills, Dict(<<>>)),
                                       response |-> response])
            /\ IF response.t = "raise"
               THEN ret' = response /\ pc' = "done" /\ UNCHANGED <<frames, files>>
               ELSE IF response.t = "invalid"
               THEN ret' = Raise("JSONDecodeError") /\ pc' = "done" /\ UNCHANGED <<frames, files>>
               ELSE /\ files' = Append(files, "modified_skills.json")
                    /\ IF ~IsDict(response)
                       THEN ret' = Raise("AttributeError") /\ pc' = "done" /\ frames' = frames
                       ELSE /\ frames' = [frames EXCEPT
                                 !.modified_resume =
                                    SetItem(frames.modified_resume, K.skills,
                                            GetOr(response, K.skills, Dict(<<>>)))]
                            /\ ret' = ret /\ pc' = "json.dumps"
  /\ UNCHANGED <<fn, arg, month_map, stdout, proc>>

\* result_str = json.dumps(modified_resume, ...);
\* write_to_file(result_str, "modified_resume.json"); return result_str
WriteResult ==
  /\ pc = "json.dumps"
  /\ files' = Append(files, "modified_resume.json")
  /\ ret' = frames.modified_resume
  /\ pc' = "done"
  /\ UNCHANGED <<fn, arg, month_map, calls, stdout, frames, proc>>

NextTailoring ==
  \/ LoadBaseResume
  \/ CopySections
  \/ ForSection
  \/ TailorEntry
  \/ ModifySkills
  \/ WriteResult

Tailoring == InitTailoring /\ [][NextTailoring]_vars

(***************************************************************************)
(* What the claims say, stated on the texts themselves.                    *)
(***************************************************************************)
\* C1: for every input that parses as a JSON object, to_json_resume returns
\* a document without raising, whatever the values under the sections and
\* under their sub-fields; it fails only when the input is no JSON object.
C1_NeverRaisesOnObject ==
  Returned("to_json_resume") => (IsDict(arg) <=> ret.t = "dict")

\* The keys of a dict, in order.
KeysOf(d) == [i \in 1..Len(d.kvs) |-> d.kvs[i][1]]

\* The elements of a sequence.
Range(xs) == {xs[i] : i \in 1..Len(xs)}

\* The four sections of entries of the document.
EntrySections == {K.work, K.education, K.skills, K.projects}

\* C2: every document to_json_resume returns has exactly the top-level keys
\* $schema, basics, work, education, skills, projects; basics is an object
\* with the key name; work, education, skills and projects are arrays, empty
\* when the input section is absent, null or empty.
C2_TopLevelShape ==
  (Returned("to_json_resume") /\ ret.t = "dict") =>
    /\ Len(ret.kvs) = 6
    /\ Range(KeysOf(ret)) = {K.schema, K.basics} \cup EntrySections
    /\ IsDict(Get(ret, K.basics))
    /\ K.name \in Range(KeysOf(Get(ret, K.basics)))
    /\ \A k \in EntrySections : IsList(Get(ret, k))
    /\ \A k \in {K.education, K.projects, K.skills} :
         Get(arg, k) \in {None, List(<<>>), Dict(<<>>)} => Get(ret, k) = List(<<>>)
    /\ Get(arg, K.experience) \in {None, List(<<>>), Dict(<<>>)} => Get(ret, K.work) = List(<<>>)

\* C2's case: the education section is null, the experience section absent,
\* the projects and skills sections empty, and the four arrays are there.
C2_Witness ==
  /\ Returned("to_json_resume")
  /\ arg = RawRecord(None, None, Absent, Dict(<<>>), Dict(<<>>))
  /\ ret = ResumeDoc(Dict(<< <<K.name, Str(<<>>)>> >>),
                     List(<<>>), List(<<>>), List(<<>>), List(<<>>))

\* null, an empty string or an empty collection.
IsEmptyValue(x) ==
  \/ x.t = "null"
  \/ x.t = "str" /\ x.s = <<>>
  \/ x.t = "list" /\ x.xs = <<>>
  \/ x.t = "dict" /\ x.kvs = <<>>

\* The fields of x that hold an empty value, each named by the keys that
\* lead to it from path on; the objects of a list stand under the list's
\* own key, and so does an empty element of a list.
RECURSIVE EmptyFields(_, _)
EmptyFields(x, path) ==
  IF x.t = "dict"
  THEN UNION {IF IsEmptyValue(x.kvs[i][2]) THEN {path \o <<x.kvs[i][1]>>}
              ELSE EmptyFields(x.kvs[i][2], path \o <<x.kvs[i][1]>>) :
              i \in 1..Len(x.kvs)}
  ELSE IF x.t = "list"
  THEN UNION {IF IsEmptyValue(x.xs[i]) THEN {path}
              ELSE EmptyFields(x.xs[i], path) : i \in 1..Len(x.xs)}
  ELSE {}

\* The empty fields inside basics and inside the entries of a document.
EmptyFieldsOfDoc(doc) ==
  EmptyFields(Get(doc, K.basics), <<K.basics>>)
  \cup UNION {EmptyFields(Get(doc, k), <<k>>) : k \in EntrySections}

\* C3 as stated: in every document to_json_resume returns, no field inside
\* basics or inside an entry holds null, an empty string or an empty
\* collection, except basics.name.
C3_AsStated ==
  (Returned("to_json_resume") /\ ret.t = "dict") =>
    EmptyFieldsOfDoc(ret) \subseteq {<<K.basics, K.name>>}

\* C3, amended: in every document to_json_resume returns, no field inside
\* basics or inside an entry holds null, an empty string or an empty
\* collection, except basics.name, the region of basics.location, the
\* username of a profile, and the level and the name of a skills entry; the
\* level of every skills entry is the empty string.
C3_NoEmptyFieldButTheStated ==
  (Returned("to_json_resume") /\ ret.t = "dict") =>
    /\ EmptyFieldsOfDoc(ret) \subseteq
         {<<K.basics, K.name>>, <<K.basics, K.location, K.region>>,
          <<K.basics, K.profiles, K.username>>,
          <<K.skills, K.level>>, <<K.skills, K.name>>}
    /\ \A g \in Range(Get(ret, K.skills).xs) : Get(g, K.level) = Str(<<>>)

\* C3's case: a record whose e-mail is blank, whose location has no region
\* and whose GitHub URL has no path: the e-mail is left out, the region and
\* the username are emitted empty.
C3_Witness ==
  /\ Returned("to_json_resume")
  /\ ret.t = "dict"
  /\ Get(arg, K.basics) =
       Record(<< <<K.name, Absent>>, <<K.email, Str(<<" ">>)>>, <<K.phone, Absent>>,
                 <<K.location, Str(Example.Remote)>>, <<K.website, Absent>>,
                 <<K.linkedin, Absent>>,
                 <<K.github, Str(<<"h","t","t","p","s",":","/","/">>)>> >>)
  /\ K.email \notin Range(KeysOf(Get(ret, K.basics)))
  /\ EmptyFieldsOfDoc(ret) =
       {<<K.basics, K.name>>, <<K.basics, K.location, K.region>>,
        <<K.basics, K.profiles, K.username>>}

SetMin(S) == CHOOSE x \in S : \A y \in S : x <= y

SetMax(S) == CHOOSE x \in S : \A y \in S : x >= y

\* The text strictly between positions a and b, without the whitespace
\* around it.
TrimmedBetween(s, a, b) ==
  LET inside == {i \in (a + 1)..(b - 1) : ~IsSpace(s[i])}
  IN IF inside = {} THEN <<>> ELSE SubSeq(s, SetMin(inside), SetMax(inside))

\* A text without the whitespace around it.
Trimmed(s) == TrimmedBetween(s, 0, Len(s) + 1)

\* The places where a comma-separated segment of s begins or ends.
CommaCuts(s) == {0, Len(s) + 1} \cup {i \in 1..Len(s) : s[i] = ","}

\* The trimmed segment that begins after the cut a.
SegmentAfter(s, a) ==
  TrimmedBetween(s, a, SetMin({c \in CommaCuts(s) : c > a}))

\* The cuts followed by a segment that is not empty.
SegmentCuts(s) ==
  {a \in CommaCuts(s) \ {Len(s) + 1} : SegmentAfter(s, a) # <<>>}

\* C8: _parse_city_region returns the first two of the trimmed, non-empty
\* comma-separated segments of its input: ("", "") when there is none,
\* (segment, "") when there is one; a non-string input gives ("", "").
\* "North Brunswick, NJ" gives ("North Brunswick", "NJ") and "Example.Remote" gives
\* ("Example.Remote", "").
C8_CityRegionSegments ==
  Returned("_parse_city_region") =>
    /\ ~IsStr(arg) => ret = Pair(<<>>, <<>>)
    /\ IsStr(arg) =>
         LET cuts == SegmentCuts(arg.s)
         IN IF cuts = {} THEN ret = Pair(<<>>, <<>>)
            ELSE IF Cardinality(cuts) = 1
            THEN ret = Pair(SegmentAfter(arg.s, SetMin(cuts)), <<>>)
            ELSE ret = Pair(SegmentAfter(arg.s, SetMin(cuts)),
                            SegmentAfter(arg.s, SetMin(cuts \ {SetMin(cuts)})))
    /\ arg = Str(Example.NorthBrunswickNJ) =>
         ret = Pair(<<"N","o","r","t","h"," ","B","r","u","n","s","w","i","c","k">>,
                    <<"N","J">>)
    /\ arg = Str(Example.Remote) => ret = Pair(Example.Remote, <<>>)

\* C8's case: a third segment (the country) is given and is discarded.
C8_Witness ==
  /\ Returned("_parse_city_region")
  /\ arg = Str(Example.AustinTXUSA)
  /\ ret = Pair(<<"A","u","s","t","i","n">>, <<"T","X">>)

\* Whether s contains t in any letter case (t in lower case).
ContainsAnyCase(s, t) ==
  \E i \in 1..Len(s) :
    /\ i + Len(t) - 1 <= Len(s)
    /\ \A k \in 1..Len(t) : LowerChar(s[i + k - 1]) = t[k]

\* The network the claim gives a URL.
ClaimedNetwork(u) ==
  IF ContainsAnyCase(u, <<"l","i","n","k","e","d","i","n",".","c","o","m">>)
  THEN <<"L","i","n","k","e","d","I","n">>
  ELSE IF ContainsAnyCase(u, <<"g","i","t","h","u","b",".","c","o","m">>)
  THEN <<"G","i","t","H","u","b">>
  ELSE <<"P","r","o","f","i","l","e">>

\* Where the text after the first "://" begins (at 1 without a "://").
AfterScheme(u) ==
  LET at == {i \in 1..Len(u) : OccursAt(u, <<":","/","/">>, i)}
  IN IF at = {} THEN 1 ELSE SetMin(at) + 3

\* The username the claim gives a URL: the last non-empty "/"-separated
\* segment of the text after "://".
ClaimedUsername(u) ==
  LET p == AfterScheme(u)
      last == {b \in p..Len(u) : u[b] # "/" /\ \A j \in (b + 1)..Len(u) : u[j] = "/"}
  IN IF last = {} THEN <<>>
     ELSE LET b == SetMin(last)
              a == SetMin({i \in p..b : \A j \in i..b : u[j] # "/"})
          IN SubSeq(u, a, b)

\* The profile the claim gives a URL.
ClaimedProfile(u) ==
  Dict(<< <<K.network, Str(ClaimedNetwork(u))>>,
          <<K.username, Str(ClaimedUsername(u))>>,
          <<K.url, Str(u)>> >>)

\* C9 as stated: the profile of a non-empty URL is made from the input as it
\* is: its url is the input and its username the last segment of the input.
C9_AsStated ==
  Returned("_parse_link_profile") =>
    IF ~IsStr(arg) \/ Trimmed(arg.s) = <<>> THEN ret = None
    ELSE ret = ClaimedProfile(arg.s)

\* C9, amended: for a string that is not blank, _parse_link_profile returns
\* the profile of the input without its surrounding whitespace: network
\* LinkedIn if it contains "linkedin.com" in any letter case, else GitHub if
\* it contains "github.com", else Profile; username the last non-empty
\* "/"-separated segment after "://"; url the trimmed input.  A blank or
\* non-string input gives None.
C9_LinkProfileOfTrimmedUrl ==
  Returned("_parse_link_profile") =>
    /\ IF ~IsStr(arg) \/ Trimmed(arg.s) = <<>> THEN ret = None
       ELSE ret = ClaimedProfile(Trimmed(arg.s))
    /\ arg = Str(Example.GithubPCosby) =>
         ret = Dict(<< <<K.network, Str(<<"G","i","t","H","u","b">>)>>,
                       <<K.username, Str(<<"P","C","o","s","b","y">>)>>,
                       <<K.url, Str(Example.GithubPCosby)>> >>)

\* C9's case: a LinkedIn URL in mixed case, with whitespace before it.
C9_Witness ==
  /\ Returned("_parse_link_profile")
  /\ arg = Str(<<" ">> \o <<"L","i","n","k","e","d","I","n",".","c","o","m">>
               \o <<"/">> \o <<"P","C","o","s","b","y">>)
  /\ ret.t = "dict"
  /\ ret.kvs[1][2] = Str(<<"L","i","n","k","e","d","I","n">>)
  /\ ret.kvs[2][2] = Str(<<"P","C","o","s","b","y">>)

\* A text YYYY-MM: four digits, a hyphen, a month 01..12.
IsYearMonth(s) ==
  /\ Len(s) = 7
  /\ \A i \in 1..4 : IsDigit(s[i])
  /\ s[5] = "-"
  /\ \/ s[6] = "0" /\ s[7] \in {"1","2","3","4","5","6","7","8","9"}
     \/ s[6] = "1" /\ s[7] \in {"0","1","2"}

\* a <= b in the lexicographic order of the code points.
LexLeq(a, b) ==
  \/ a = b
  \/ \E i \in 1..Len(a) :
       /\ i <= Len(b)
       /\ \A j \in 1..(i - 1) : a[j] = b[j]
       /\ Ord[a[i]] < Ord[b[i]]
  \/ Len(a) < Len(b) /\ \A j \in 1..Len(a) : a[j] = b[j]

StartsWith(s, p) == OccursAt(s, p, 1)

EndsWith(s, p) == OccursAt(s, p, Len(s) - Len(p) + 1)

\* The YYYY-MM of a text "Mon YYYY".
YearMonthOf(my) ==
  SubSeq(my, Len(my) - 3, Len(my)) \o <<"-">> \o MONTH_MAP[Lower(SubSeq(my, 1, Len(my) - 5))]

\* C4: for every input "Mon YYYY - Mon YYYY", _parse_date_range returns two
\* valid YYYY-MM texts, the start for the first segment and the end for the
\* second, with start <= end; "Jun 2023 - Aug 2023" gives
\* ("2023-06", "2023-08").
C4_ClosedRangeParsed ==
  (Returned("_parse_date_range") /\ IsStr(arg) /\ arg.s \in ClosedRanges) =>
    /\ IsYearMonth(ret.v[1])
    /\ IsYearMonth(ret.v[2])
    /\ \A a \in MonthYearTexts : StartsWith(arg.s, a) => ret.v[1] = YearMonthOf(a)
    /\ \A b \in EndMonthYearTexts : EndsWith(arg.s, b) => ret.v[2] = YearMonthOf(b)
    /\ LexLeq(ret.v[1], ret.v[2])
    /\ arg.s = Example.JunAug2023 =>
         ret = Pair(<<"2","0","2","3","-","0","6">>, <<"2","0","2","3","-","0","8">>)

\* C5: when the second segment contains "present" in any letter case,
\* _parse_date_range returns the parsed start and an absent end;
\* "Jan 2024 - Present" gives ("2024-01", absent), and the entry converted
\* from it has the key startDate and no key endDate.
C5_OpenRangeParsed ==
  /\ (Returned("_parse_date_range") /\ IsStr(arg) /\ arg.s \in OpenRanges) =>
       /\ \A a \in MonthYearTexts : StartsWith(arg.s, a) => ret.v[1] = YearMonthOf(a)
       /\ ret.v[2] = <<>>
       /\ arg.s = Example.Jan2024Present => ret = Pair(<<"2","0","2","4","-","0","1">>, <<>>)
  /\ (/\ Returned("to_json_resume")
      /\ arg = RawRecord(Absent, Absent, List(<<OngoingJob>>), Absent, Absent)) =>
       Get(ret, K.work) =
         List(<<Dict(<< <<K.name, Str(<<"F","i","s","e","r","v">>)>>,
                        <<K.startDate, Str(<<"2","0","2","4","-","0","1">>)>> >>)>>)

\* The three dashes the date range is to be split at.
IsDash(c) == c \in {"-", "EN", "EM"}

\* C6: the date range is split only at a hyphen, an en dash or an em dash
\* (with the whitespace around it): there is one more piece than there are
\* dashes, and the first piece is the whole text before the first dash.
C6_SplitOnlyAtDashes ==
  Returned("_DATE_SPLIT_RE.split") =>
    LET s == arg.s
        dashes == {i \in 1..Len(s) : IsDash(s[i])}
    IN /\ Len(ret.xs) = Cardinality(dashes) + 1
       /\ ret.xs[1] = Str(IF dashes = {} THEN s
                         ELSE SubSeq(s, 1, SkipSpacesBack(s, SetMin(dashes) - 1)))

\* C7: for every input, string or not, _parse_date_range returns (it does
\* not raise) two results, each absent or a text YYYY-MM with MM in 01..12;
\* an empty, blank or non-string input gives both absent.
C7_DateRangeTotal ==
  Returned("_parse_date_range") =>
    /\ ret.t = "tuple"
    /\ \A i \in {1, 2} : ret.v[i] = <<>> \/ IsYearMonth(ret.v[i])
    /\ (~IsStr(arg) \/ Trimmed(arg.s) = <<>>) => ret = Pair(<<>>, <<>>)

\* C7's case: an input that is not a string has been parsed.
C7_Witness ==
  /\ Returned("_parse_date_range")
  /\ arg = List(<<Str(<<"a">>)>>)
  /\ ret = Pair(<<>>, <<>>)

\* Where the word "in", in any letter case and with whitespace on both
\* sides, occurs in s.
InWordAt(s) ==
  {j \in 2..(Len(s) - 2) :
     /\ IsSpace(s[j - 1])
     /\ LowerChar(s[j]) = "i"
     /\ LowerChar(s[j + 1]) = "n"
     /\ IsSpace(s[j + 2])}

\* C10: _split_degree_title splits the title at the first " in " only:
\* studyType is the text before it and area all of the text after it; with
\* no occurrence the whole title is studyType; an empty or non-string input
\* gives both empty.
C10_SplitAtFirstInOnly ==
  Returned("_split_degree_title") =>
    IF ~IsStr(arg) \/ Trimmed(arg.s) = <<>> THEN ret = Pair(<<>>, <<>>)
    ELSE LET t == Trimmed(arg.s)
         IN IF InWordAt(t) = {} THEN ret = Pair(t, <<>>)
            ELSE LET j == SetMin(InWordAt(t))
                 IN ret = Pair(Trimmed(SubSeq(t, 1, j - 1)), Trimmed(From(t, j + 2)))

\* The elements of a set of numbers, in increasing order.
RECURSIVE Ascending(_)
Ascending(S) == IF S = {} THEN <<>> ELSE <<SetMin(S)>> \o Ascending(S \ {SetMin(S)})

\* The trimmed, non-empty comma-separated segments of a text, in order.
CommaSegments(s) ==
  [i \in 1..Cardinality(SegmentCuts(s)) |-> SegmentAfter(s, Ascending(SegmentCuts(s))[i])]

\* The trimmed string form of each element of a list.
TrimmedForms(xs) == [i \in 1..Len(xs) |-> Trimmed(PyStr(xs[i]))]

\* The keywords the claim gives a category value: the trimmed non-empty
\* elements of a list, the trimmed non-empty comma-separated segments of the
\* string form of a scalar; none for null.
ClaimedKeywords(value) ==
  IF value.t = "null" THEN <<>>
  ELSE IF value.t = "list" THEN SelectSeq(TrimmedForms(value.xs), NonEmpty)
  ELSE CommaSegments(PyStr(value))

\* The name the claim gives a category key: underscores become spaces, and
\* each word (a run of letters) has its first letter in upper case and its
\* other letters in lower case.
ClaimedSkillName(key) ==
  [i \in 1..Len(key) |->
     IF key[i] = "_" THEN " "
     ELSE IF i > 1 /\ (IsUpper(key[i - 1]) \/ IsLower(key[i - 1])) THEN LowerChar(key[i])
     ELSE UpperChar(key[i])]

\* Whether the claim keeps a category.
HasClaimedKeywords(kv) == ClaimedKeywords(kv[2]) # <<>>

\* The group the claim gives a category.
ClaimedGroup(kv) ==
  Dict(<< <<K.name, Str(ClaimedSkillName(kv[1]))>>,
          <<K.level, Str(<<>>)>>,
          <<K.keywords, StrList(ClaimedKeywords(kv[2]))>> >>)

\* The groups the claim gives the categories kept.
ClaimedGroups(kept) == [i \in 1..Len(kept) |-> ClaimedGroup(kept[i])]

\* C11: _convert_skills returns one group per category that has a non-empty
\* keyword after trimming, in the order of the input keys; a category whose
\* value is null or yields no keyword is omitted; a group has the name made
\* of the key (underscores to spaces, words title-cased), level "" and the
\* trimmed non-empty keywords in input order, a scalar being stringified and
\* split on commas.  {"programming_languages": ["Python", " "]} gives
\* [{name "Programming Languages", level "", keywords ["Python"]}].
C11_SkillGroups ==
  (Returned("_convert_skills") /\ IsDict(arg)) =>
    /\ ret = List(ClaimedGroups(SelectSeq(arg.kvs, HasClaimedKeywords)))
    /\ arg = SomeSkills =>
         ret = List(<<Dict(<< <<K.name, Str(<<"P","r","o","g","r","a","m","m","i","n","g"," ",
                                              "L","a","n","g","u","a","g","e","s">>)>>,
                              <<K.level, Str(<<>>)>>,
                              <<K.keywords, StrList(<< <<"P","y","t","h","o","n">> >>)>> >>)>>)

\* C11's case: two categories, the first with a null value and omitted, the
\* second a scalar text split on commas.
C11_Witness ==
  /\ Returned("_convert_skills")
  /\ arg = Dict(<< << <<"x">>, None>>,
                   << <<"w","e","b","3","_","A","I">>, Str(<<"a",","," ","b">>)>> >>)
  /\ ret = List(<<Dict(<< <<K.name, Str(<<"W","e","b","3"," ","A","i">>)>>,
                          <<K.level, Str(<<>>)>>,
                          <<K.keywords, StrList(<< <<"a">>, <<"b">> >>)>> >>)>>)

\* Every key of a value, the keys of its nested objects and lists included.
RECURSIVE AllKeys(_)
AllKeys(x) ==
  IF x.t = "dict"
  THEN Range(KeysOf(x)) \cup UNION {AllKeys(x.kvs[i][2]) : i \in 1..Len(x.kvs)}
  ELSE IF x.t = "list" THEN UNION {AllKeys(x.xs[i]) : i \in 1..Len(x.xs)}
  ELSE {}

\* A field that is not given: absent, null or a blank text.
NotGiven(d, k) ==
  \/ Get(d, k) = None
  \/ IsStr(Get(d, k)) /\ Trimmed(Get(d, k).s) = <<>>

\* A dates field that cannot parse: not given, or a text without four
\* digits in a row.
NoDate(d) ==
  \/ NotGiven(d, K.dates)
  \/ IsStr(Get(d, K.dates)) /\ \A i \in 1..Len(Get(d, K.dates).s) : ~FourDigitsAt(Get(d, K.dates).s, i)

\* A section whose entries give no location and no date that parses.
NothingDated(section) ==
  \/ section = None
  \/ /\ IsList(section)
     /\ \A e \in Range(section.xs) : IsDict(e) => (NotGiven(e, K.location) /\ NoDate(e))

\* A raw record with no date that parses, no location and no link.
NothingOptional(data) ==
  /\ IsDict(data)
  /\ \/ Get(data, K.basics) = None
     \/ /\ IsDict(Get(data, K.basics))
        /\ \A k \in {K.location, K.linkedin, K.github} : NotGiven(Get(data, K.basics), k)
  /\ \A k \in {K.education, K.experience, K.projects} : NothingDated(Get(data, k))

\* C12: converting a raw record in which no dates string parses and no
\* location and no linkedin or github link is given yields a document in
\* which the keys startDate, endDate, location and profiles appear nowhere.
C12_OptionalKeysAbsent ==
  (Returned("to_json_resume") /\ NothingOptional(arg) /\ ret.t = "dict") =>
    AllKeys(ret) \cap {K.startDate, K.endDate, K.location, K.profiles} = {}

\* C12's case: a job with a name, dates that are no date and a blank
\* location is converted to an entry with the name alone.
C12_Witness ==
  /\ Returned("to_json_resume")
  /\ arg = RawRecord(Absent, Absent, List(<<UndatedJob>>), Absent, Absent)
  /\ NothingOptional(arg)
  /\ Get(ret, K.work) = List(<<Dict(<< <<K.name, Str(<<"A","c","m","e">>)>> >>)>>)

\* The sequence a is b with some elements left out.
RECURSIVE IsSubseq(_, _)
IsSubseq(a, b) ==
  IF a = <<>> THEN TRUE
  ELSE IF b = <<>> THEN FALSE
  ELSE IF Head(a) = Head(b) THEN IsSubseq(Tail(a), Tail(b))
  ELSE IsSubseq(a, Tail(b))

\* The trimmed text of each bullet that is a record with a text, the empty
\* text for the others.
BulletsAsGiven(bullets) ==
  [i \in 1..Len(bullets.xs) |->
     IF IsDict(bullets.xs[i]) /\ IsStr(Get(bullets.xs[i], K.text))
     THEN Trimmed(Get(bullets.xs[i], K.text).s) ELSE <<>>]

\* The texts of a list of strings.
TextsOf(list) == [i \in 1..Len(list.xs) |-> list.xs[i].s]

\* The highlights and the keywords of a canonical entry are those of the raw
\* entry e, in its order.
InnerOrderKept(out, e) ==
  /\ (K.highlights \in Range(KeysOf(out)) /\ IsList(Get(e, K.bullets))) =>
       IsSubseq(TextsOf(Get(out, K.highlights)), BulletsAsGiven(Get(e, K.bullets)))
  /\ (K.keywords \in Range(KeysOf(out)) /\ IsList(Get(e, K.tools))) =>
       IsSubseq(TextsOf(Get(out, K.keywords)), TrimmedForms(Get(e, K.tools).xs))

\* The canonical entries out are those of the raw entries, one by one and
\* in their order, where each[i] is what the i-th raw entry alone becomes.
EntriesInOrder(out, section, each) ==
  /\ out.xs = Concat(each)
  /\ \A i \in 1..Len(each) : \A o \in Range(each[i]) : InnerOrderKept(o, section.xs[i])

\* The three sections of a document keep the order of the raw record.
SectionsInOrder(doc, data) ==
  /\ IsList(Get(data, K.experience)) =>
       EntriesInOrder(Get(doc, K.work), Get(data, K.experience),
                      [i \in 1..Len(Get(data, K.experience).xs) |->
                         ConvertExperience(List(<<Get(data, K.experience).xs[i]>>)).xs])
  /\ IsList(Get(data, K.education)) =>
       EntriesInOrder(Get(doc, K.education), Get(data, K.education),
                      [i \in 1..Len(Get(data, K.education).xs) |->
                         ConvertEducation(List(<<Get(data, K.education).xs[i]>>)).xs])
  /\ IsList(Get(data, K.projects)) =>
       EntriesInOrder(Get(doc, K.projects), Get(data, K.projects),
                      [i \in 1..Len(Get(data, K.projects).xs) |->
                         ConvertProjects(List(<<Get(data, K.projects).xs[i]>>)).xs])
  /\ IsDict(Get(data, K.skills)) =>
       /\ Get(doc, K.skills).xs =
            Concat([i \in 1..Len(Get(data, K.skills).kvs) |->
                      ConvertSkills(Dict(<<Get(data, K.skills).kvs[i]>>)).xs])
       /\ \A g \in Range(Get(doc, K.skills).xs) :
            \E kv \in Range(Get(data, K.skills).kvs) :
              IsSubseq(TextsOf(Get(g, K.keywords)), ClaimedKeywords(kv[2]))

C15_CallsDoNotInterfere ==
  /\ month_map = MONTH_MAP
  /\ \A c \in Callers : frames[c].data \in {NoRet, frames[c].text}
  /\ \A c \in Callers :
       (Done(c) /\ \A d \in Callers \ {c} : frames[d].text # frames[c].text) =>
         frames[c].ret = ToJsonResume(frames[c].text)

\* C15's case: a call returned its document while a call on another record
\* was between two converters.
C15_Witness ==
  /\ Done("a") /\ frames["a"].ret.t = "dict"
  /\ frames["b"].pc = "education"
  /\ IsDict(frames["b"].text) /\ frames["b"].text # frames["a"].text
  /\ frames["a"].ret = ToJsonResume(frames["a"].text)
  /\ Len(Get(frames["a"].ret, K.work).xs) = 3

\* The raw location a canonical location object stands for: "city, region".
RawLocationOf(loc) ==
  IF loc = None THEN None
  ELSE IF Get(loc, K.region).s = <<>> THEN Get(loc, K.city)
  ELSE Str(Get(loc, K.city).s \o <<",", " ">> \o Get(loc, K.region).s)

\* The url of the i-th profile, if there is one.
RawLinkOf(profiles, i) ==
  IF profiles = None THEN None
  ELSE IF Len(profiles.xs) < i THEN None
  ELSE Get(profiles.xs[i], K.url)

\* The raw basics of canonical basics: url under website, the location as
\* one text, the urls of the profiles under linkedin and github.
RawBasicsOf(b) ==
  Dict(<< <<K.name, Get(b, K.name)>>, <<K.email, Get(b, K.email)>>, <<K.phone, Get(b, K.phone)>>,
          <<K.website, Get(b, K.url)>>, <<K.location, RawLocationOf(Get(b, K.location))>>,
          <<K.linkedin, RawLinkOf(Get(b, K.profiles), 1)>>,
          <<K.github, RawLinkOf(Get(b, K.profiles), 2)>> >>)

\* The raw bullets of highlights: one record with the text for each.
RawBulletsOf(highlights) ==
  IF highlights = None THEN None
  ELSE List([i \in 1..Len(highlights.xs) |-> Dict(<< <<K.text, highlights.xs[i]>> >>)])

\* The raw dates of an entry with a start or an end date.
RawDatesOf(e) ==
  IF Get(e, K.startDate) = None /\ Get(e, K.endDate) = None THEN None
  ELSE Str(PyStr(Or(Get(e, K.startDate), Str(<<>>))) \o <<" ", "-", " ">>
           \o PyStr(Or(Get(e, K.endDate), Str(<<>>))))

\* The raw title of a study type and an area: "<studyType> in <area>".
RawTitleOf(e) ==
  IF Get(e, K.area) = None THEN Get(e, K.studyType)
  ELSE Str(PyStr(Or(Get(e, K.studyType), Str(<<>>))) \o <<" ", "i", "n", " ">> \o Get(e, K.area).s)

RawWorkOf(w) ==
  Dict(<< <<K.name, Get(w, K.name)>>, <<K.title, Get(w, K.position)>>,
          <<K.location, Get(w, K.location)>>, <<K.dates, RawDatesOf(w)>>,
          <<K.bullets, RawBulletsOf(Get(w, K.highlights))>>, <<K.tools, Get(w, K.keywords)>> >>)

RawEducationOf(e) ==
  Dict(<< <<K.name, Get(e, K.institution)>>, <<K.title, RawTitleOf(e)>>,
          <<K.location, Get(e, K.location)>>, <<K.dates, RawDatesOf(e)>> >>)

RawProjectOf(p) ==
  Dict(<< <<K.name, Get(p, K.name)>>, <<K.dates, RawDatesOf(p)>>,
          <<K.bullets, RawBulletsOf(Get(p, K.highlights))>>, <<K.tools, Get(p, K.keywords)>> >>)

\* The name of the i-th skill group.
GroupName(groups, i) == Get(groups.xs[i], K.name).s

\* The mapping from the name of each skill group to its keywords: a name
\* has one value, that of the last group with the name, at the place of the
\* first.
RawSkillsOf(groups) ==
  LET firsts == Ascending({i \in 1..Len(groups.xs) :
                             \A j \in 1..(i - 1) : GroupName(groups, j) # GroupName(groups, i)})
      last(i) == SetMax({j \in 1..Len(groups.xs) : GroupName(groups, j) = GroupName(groups, i)})
  IN Dict([n \in 1..Len(firsts) |->
             <<GroupName(groups, firsts[n]), Get(groups.xs[last(firsts[n])], K.keywords)>>])

\* The raw record a canonical document stands for.
RawShapeOf(doc) ==
  Dict(<< <<K.basics, RawBasicsOf(Get(doc, K.basics))>>,
          <<K.education, List([i \in 1..Len(Get(doc, K.education).xs) |->
                                 RawEducationOf(Get(doc, K.education).xs[i])])>>,
          <<K.experience, List([i \in 1..Len(Get(doc, K.work).xs) |->
                                  RawWorkOf(Get(doc, K.work).xs[i])])>>,
          <<K.projects, List([i \in 1..Len(Get(doc, K.projects).xs) |->
                                RawProjectOf(Get(doc, K.projects).xs[i])])>>,
          <<K.skills, RawSkillsOf(Get(doc, K.skills))>> >>)

\* A document has a raw shape when no two of its skill groups have the same
\* name: a mapping has one value for a name.
HasRawShape(doc) ==
  \A i, j \in 1..Len(Get(doc, K.skills).xs) :
    i # j => Get(Get(doc, K.skills).xs[i], K.name) # Get(Get(doc, K.skills).xs[j], K.name)

\* C14 as stated: for every document to_json_resume returns, converting the
\* raw shape of the document returns the document.
C14_AsStated ==
  (Returned("to_json_resume") /\ ret.t = "dict") => ToJsonResume(RawShapeOf(ret)) = ret

\* C14, amended: re-running to_json_resume on the raw shape of its own output (work
\* as experience, highlights as the texts of bullets, keywords as tools, the
\* skill groups as a mapping from name to keywords, the other fields under
\* their raw keys) returns the same canonical document, provided no two
\* skill groups of the output have the same name.
C14_Idempotent ==
  (Returned("to_json_resume") /\ ret.t = "dict" /\ HasRawShape(ret)) =>
    ToJsonResume(RawShapeOf(ret)) = ret

\* C14's case: a document with a degree split into study type and area, a
\* job, a project with highlights and a skill group with a title-cased name
\* is what its raw shape converts to.
C14_Witness ==
  /\ Returned("to_json_resume") /\ ret.t = "dict" /\ HasRawShape(ret)
  /\ Get(arg, K.education) = List(<<Record(<< <<K.title, Str(Example.MastersTitle)>> >>)>>)
  /\ K.area \in AllKeys(Get(ret, K.education))
  /\ K.highlights \in AllKeys(Get(ret, K.projects))
  /\ Get(arg, K.skills) = SomeSkills
  /\ Len(Get(ret, K.work).xs) = 1
  /\ RawShapeOf(ret) # arg
  /\ ToJsonResume(RawShapeOf(ret)) = ret

\* Nothing was copied to output_path: the file there is the one from before
\* the call, or there is none.
NothingCopied == files.output \in {"none", "old"}

\* C16: json_resume_to_pdf returns the output path only when the theme
\* directory exists, the renderer exited with code 0 and resume.pdf exists
\* afterwards; in every other case it raises an error and nothing is copied
\* to output_path.
C16_PathOnlyAfterRender ==
  Returned("json_resume_to_pdf") =>
    /\ ret.t = "path" =>
         /\ files.theme_dir
         /\ proc # None /\ proc.returncode = 0
         /\ files.resume_pdf # "none"
         /\ files.output = files.resume_pdf
    /\ (~files.theme_dir \/ proc = None \/ proc.returncode # 0 \/ files.resume_pdf = "none") =>
         (IsRaise(ret) /\ NothingCopied)
    /\ ret.t # "path" => (IsRaise(ret) /\ NothingCopied)

\* C16's case: the renderer exited with 1 after writing resume.pdf, and the
\* call raised with the old file left at output_path.
C16_Witness ==
  /\ Returned("json_resume_to_pdf")
  /\ proc # None /\ proc.returncode = 1 /\ files.resume_pdf = "new"
  /\ ret = Raise("RuntimeError") /\ files.output = "old"

\* Whitespace and the comma separate the tokens of a month-year segment.
IsTokenChar(c) == ~IsSpace(c) /\ c # ","

\* The places where a token of s begins.
TokenStarts(s) ==
  {i \in 1..Len(s) : IsTokenChar(s[i]) /\ (i = 1 \/ ~IsTokenChar(s[i - 1]))}

\* The first token of a text that has one.
FirstToken(s) ==
  SubSeq(s, SetMin(TokenStarts(s)),
         SetMax({j \in SetMin(TokenStarts(s))..Len(s) :
                   \A k \in SetMin(TokenStarts(s))..j : IsTokenChar(s[k])}))

\* The month word of a text: the word characters of its first token, in
\* lower case.
MonthWord(s) == Lower(SelectSeq(FirstToken(s), IsWord))

\* The places where four digits in a row begin.
FourDigitRuns(s) == {i \in 1..(Len(s) - 3) : \A k \in i..(i + 3) : IsDigit(s[k])}

\* Whether a value is a segment that the claim says parses.
ParsesAsMonthYear(text) ==
  /\ IsStr(text)
  /\ Cardinality(TokenStarts(text.s)) >= 2
  /\ MonthWord(text.s) \in DOMAIN MONTH_MAP
  /\ FourDigitRuns(text.s) # {}

\* The year and the month the claim gives a segment that parses.
ClaimedMonthYear(s) ==
  Pair(SubSeq(s, SetMin(FourDigitRuns(s)), SetMin(FourDigitRuns(s)) + 3), MONTH_MAP[MonthWord(s)])

C18_BoundariesIndependent ==
  (Returned("_parse_date_range") /\ IsStr(arg)) =>
    \A g \in Unparsed, d \in DashSeparators, m \in EndMonthYearTexts :
      /\ arg.s = g \o d \o m => ret = Pair(<<>>, YearMonthOf(m))
      /\ arg.s = m \o d \o g => ret = Pair(YearMonthOf(m), <<>>)

\* The raw value under the key from is emitted under the key to: when it is
\* not null and its string form is not blank, the output has the trimmed
\* string form.
EmittedAs(in, from, out, to) ==
  (Get(in, from) # None /\ Trimmed(PyStr(Get(in, from))) # <<>>) =>
    (IsDict(out) /\ Get(out, to) = Str(Trimmed(PyStr(Get(in, from)))))

\* The only entry a section of the document has for the only entry of the
\* raw section, or null when the document has none.
OnlyEntry(section) == IF Len(section.xs) = 1 THEN section.xs[1] ELSE None

\* Whether a raw section is a list of one record.
IsOneRecord(section) == IsList(section) /\ Len(section.xs) = 1 /\ IsDict(section.xs[1])

\* C19: in the basics, education, experience and projects converters every
\* expected field whose value is not null, the number 0 and the boolean
\* false included, is cast to its string form, trimmed, and emitted when it
\* is not empty.
C19_NonNullFieldsEmitted ==
  (Returned("to_json_resume") /\ IsDict(arg) /\ ret.t = "dict") =>
    /\ IsDict(Get(arg, K.basics)) =>
         \A k \in {K.name, K.email, K.phone} :
           EmittedAs(Get(arg, K.basics), k, Get(ret, K.basics), k)
    /\ IsOneRecord(Get(arg, K.experience)) =>
         \A kk \in {<<K.name, K.name>>, <<K.title, K.position>>, <<K.location, K.location>>} :
           EmittedAs(Get(arg, K.experience).xs[1], kk[1], OnlyEntry(Get(ret, K.work)), kk[2])
    /\ IsOneRecord(Get(arg, K.education)) =>
         \A kk \in {<<K.name, K.institution>>, <<K.location, K.location>>} :
           EmittedAs(Get(arg, K.education).xs[1], kk[1], OnlyEntry(Get(ret, K.education)), kk[2])
    /\ IsOneRecord(Get(arg, K.projects)) =>
         EmittedAs(Get(arg, K.projects).xs[1], K.name, OnlyEntry(Get(ret, K.projects)), K.name)

\* A bullet survives: it is a record with a string text that is not blank.
Survives(b) ==
  IsDict(b) /\ IsStr(Get(b, K.text)) /\ Trimmed(Get(b, K.text).s) # <<>>

\* The trimmed texts of the bullets that survive, in order.
SurvivingTexts(bullets) ==
  [i \in 1..Len(SelectSeq(bullets, Survives)) |->
     Trimmed(Get(SelectSeq(bullets, Survives)[i], K.text).s)]

\* The highlights the claim gives a raw entry: none unless bullets is a list.
ClaimedHighlights(e) ==
  IF IsList(Get(e, K.bullets)) THEN SurvivingTexts(Get(e, K.bullets).xs) ELSE <<>>

\* The canonical entry out has the highlights given, or no highlights key
\* (or there is no entry at all) when none is given.
HasHighlights(out, texts) ==
  IF texts = <<>> THEN out = None \/ K.highlights \notin Range(KeysOf(out))
  ELSE IsDict(out) /\ Get(out, K.highlights) = StrList(texts)

CoverLetterAsked ==
  /\ arg.MAKE_COVER_LETTER # Absent
  /\ Lower(arg.MAKE_COVER_LETTER.s) \in {<<"t">>, <<"t", "r", "u", "e">>, <<"1">>}

\* The steps in the order in which the script is said to run them.
FixedOrder ==
  << [step |-> "extract_job_info", arg |-> "text"],
     [step |-> "modify_resume_info", arg |-> "job_info"],
     [step |-> "finalize_resume_info", arg |-> "modified_resume_info"],
     [step |-> "compile_resume_pdf", arg |-> "finalized_resume_info"] >>
  \o (IF CoverLetterAsked
      THEN << [step |-> "generate_cover_letter", arg |-> "job_info, finalized_resume_info"],
              [step |-> "compile_cover_letter_pdf", arg |-> "cover_letter"],
              [step |-> "open_pdf", arg |-> "cover_letter_path"] >>
      ELSE <<>>)
  \o << [step |-> "open_pdf", arg |-> "resume_path"] >>

\* The steps started so far, without what came of them.
StepsStarted == [i \in 1..Len(calls) |-> [step |-> calls[i].step, arg |-> calls[i].arg]]

\* selected.txt is missing, or holds nothing but white space.
MissingOrBlank ==
  \/ arg.selected = Absent
  \/ arg.selected.t = "str" /\ \A i \in 1..Len(arg.selected.s) : IsSpace(arg.selected.s[i])

SomeStepRaised == \E i \in 1..Len(calls) : calls[i].outcome # "returned"

\* C21: in every run of the script the steps started so far are the first
\* steps of the fixed order extract job info, tailor, finalize, compile the
\* resume PDF, (generate, compile and open the cover letter, only when
\* MAKE_COVER_LETTER asks for it), open the resume PDF; every step before
\* the last one started has returned, so that no step follows one that
\* raised; a finished run in which a step raised ends with the error
\* line, a finished run on a text in which none raised has run them all;
\* and no step runs when selected.txt is missing or blank.
C21_StepsInOrder ==
  /\ Len(calls) <= Len(FixedOrder)
  /\ StepsStarted = SubSeq(FixedOrder, 1, Len(calls))
  /\ \A i \in 1..(Len(calls) - 1) : calls[i].outcome = "returned"
  /\ (pc = "done" /\ SomeStepRaised) =>
       (stdout # <<>> /\ stdout[Len(stdout)] = "ERROR: {e}")
  /\ (pc = "done" /\ arg.selected.t = "str" /\ ~MissingOrBlank /\ ~SomeStepRaised) =>
       Len(calls) = Len(FixedOrder)
  /\ (\E i \in 1..Len(calls) : calls[i].step = "generate_cover_letter") =>
       arg.MAKE_COVER_LETTER # Absent
  /\ MissingOrBlank => calls = <<>>

\* A run with the cover letter asked for, in which the sixth step, the
\* compilation of the cover letter, raised: the run is over, nothing was
\* opened, and the error line is the last one printed.
C21_Witness ==
  /\ fn = "run_resume_bot" /\ pc = "done"
  /\ arg.MAKE_COVER_LETTER = Str(<<"T", "r", "u", "e">>)
  /\ Len(calls) = 6
  /\ calls[6] = [step |-> "compile_cover_letter_pdf", arg |-> "cover_letter",
                 outcome |-> "CalledProcessError"]
  /\ stdout[Len(stdout)] = "ERROR: {e}"


(***************************************************************************)
(* The tailoring of the base resume, entry by entry.                       *)
(***************************************************************************)

\* The entries of a section of the base resume: none when the section is
\* not there or is null.
BaseList(section) ==
  IF section \in Range(KeysOf(arg.base_resume)) /\ Get(arg.base_resume, section).t = "list"
  THEN Get(arg.base_resume, section).xs
  ELSE <<>>

\* The positions in calls of the model calls made for a section, in order.
RECURSIVE CallsFor(_, _)
CallsFor(section, n) ==
  IF n = 0 THEN <<>>
  ELSE IF calls[n].section = section THEN Append(CallsFor(section, n - 1), calls[n])
  ELSE CallsFor(section, n - 1)

\* The tools of a base entry, none when it names none.
BaseTools(entry) ==
  IF K.tools \in Range(KeysOf(entry)) THEN Get(entry, K.tools) ELSE List(<<>>)

\* A tailored entry is the object the model returned but for its tools.
SameButTools(tailored, response) ==
  /\ \A k \in Range(KeysOf(response)) \ {K.tools} : Get(tailored, k) = Get(response, k)
  /\ Range(KeysOf(tailored)) = Range(KeysOf(response)) \cup {K.tools}

SomeResponseNotJson == \E n \in 1..Len(calls) : calls[n].response.t = "invalid"

TailoringReturned == pc = "done" /\ ret.t # "raise"

\* C22: modify_resume_info never makes more model calls for a section than
\* the section has base entries, and the n-th call is for the n-th entry;
\* when it returns it has made exactly one call for each base entry of
\* experience and of projects, the tailored list of each of the two
\* sections is as long as the base list, its n-th entry is what the model
\* returned for the n-th base entry with the tools of that base entry put
\* in place of whatever tools the model gave, and basics and education
\* are those of the base resume; once a model response is not valid JSON
\* the function has raised and modified_resume.json is not written.
C22_OneCallPerEntry ==
  /\ \A section \in {K.experience, K.projects} :
       LET made == CallsFor(section, Len(calls))
           base == BaseList(section)
       IN /\ Len(made) <= Len(base)
          /\ \A n \in 1..Len(made) : made[n].entry = base[n]
          /\ TailoringReturned =>
               /\ Len(made) = Len(base)
               /\ Get(ret, section).t = "list"
               /\ Len(Get(ret, section).xs) = Len(base)
               /\ \A n \in 1..Len(base) :
                    /\ Get(Get(ret, section).xs[n], K.tools) = BaseTools(base[n])
                    /\ SameButTools(Get(ret, section).xs[n], made[n].response)
  /\ TailoringReturned =>
       \A section \in {K.basics, K.education} :
         section \in Range(KeysOf(arg.base_resume)) =>
           Get(ret, section) = Get(arg.base_resume, section)
  /\ SomeResponseNotJson =>
       /\ pc = "done" /\ ret.t = "raise"
       /\ "modified_resume.json" \notin Range(files)
  /\ "modified_resume.json" \in Range(files) => TailoringReturned

\* A call that returned: two experience entries, the first with tools, for
\* which the model gave tools of its own, the second without; the tailored
\* entries carry Go and no tools, in the order of the base list.
C22_Witness ==
  /\ fn = "modify_resume_info" /\ pc = "done" /\ ret.t = "dict"
  /\ BaseList(K.experience) = <<BaseEntries.Acme, BaseEntries.Bolt>>
  /\ CallsFor(K.experience, Len(calls))[1].response
       = Dict(<< <<K.name, Str(<<"N","e","w">>)>>, <<K.tools, List(<<Str(<<"R","u","s","t">>)>>)>> >>)
  /\ CallsFor(K.experience, Len(calls))[2].response = Dict(<< <<K.title, Str(<<"D","e","v">>)>> >>)
  /\ Get(ret, K.experience) =
       List(<< Dict(<< <<K.name, Str(<<"N","e","w">>)>>, <<K.tools, List(<<Str(<<"G","o">>)>>)>> >>),
               Dict(<< <<K.title, Str(<<"D","e","v">>)>>, <<K.tools, List(<<>>)>> >>) >>)
  /\ "modified_resume.json" \in Range(files)


(***************************************************************************)
(* The lists the education, experience and projects converters give.       *)
(***************************************************************************)

\* An entry that must give no element: one that is no record, or a record
\* all of whose values are null, blank texts or empty collections.
GivesNothing(e) ==
  \/ ~IsDict(e)
  \/ \A i \in 1..Len(e.kvs) :
       \/ IsEmptyValue(e.kvs[i][2])
       \/ IsStr(e.kvs[i][2]) /\ Trimmed(e.kvs[i][2].s) = <<>>

\* An entry that must give an element: a record whose name is a text that
\* is not blank.
GivesSomething(e) ==
  IsDict(e) /\ IsStr(Get(e, K.name)) /\ Trimmed(Get(e, K.name).s) # <<>>

\* The element o is the image of the entry e: an object that is not empty,
\* with the name of e, trimmed, under the key to, or with nothing there.
ImageOf(o, e, to) ==
  /\ IsDict(o) /\ o # Dict(<<>>)
  /\ ~GivesNothing(e)
  /\ IF GivesSomething(e) THEN Get(o, to) = Str(Trimmed(Get(e, K.name).s))
     ELSE Get(o, to) \in {None, Str(Trimmed(PyStr(Get(e, K.name))))}

\* The ways to pick n of m positions in their order.
Picks(n, m) == {j \in [1..n -> 1..m] : \A a, b \in 1..n : a < b => j[a] < j[b]}

\* out is the image of the entries of in that give something, in order.
OrderedImage(out, in, to) ==
  IF ~IsList(in) THEN out = <<>>
  ELSE /\ Len(out) <= Len(in.xs)
       /\ \E j \in Picks(Len(out), Len(in.xs)) :
            /\ \A n \in 1..Len(out) : ImageOf(out[n], in.xs[j[n]], to)
            /\ \A i \in 1..Len(in.xs) :
                 GivesSomething(in.xs[i]) => \E n \in 1..Len(out) : j[n] = i

\* C23: the list each of the education, experience and projects converters
\* gives is the image, in order, of the entries of its input that are
\* records with something to emit: entries that are no records and
\* records whose fields are all empty give no element, no element is an
\* empty object, and the list is never longer than the input.
C23_OrderedImages ==
  (Returned("to_json_resume") /\ IsDict(arg) /\ ret.t = "dict") =>
    /\ OrderedImage(Get(ret, K.education).xs, Get(arg, K.education), K.institution)
    /\ OrderedImage(Get(ret, K.work).xs, Get(arg, K.experience), K.name)
    /\ OrderedImage(Get(ret, K.projects).xs, Get(arg, K.projects), K.name)

\* Two experience entries, a number and a job with a name: the work list
\* has the job alone.
C23_Witness ==
  /\ Returned("to_json_resume") /\ IsDict(arg) /\ ret.t = "dict"
  /\ Get(arg, K.experience) = List(<<Num(7), OngoingJob>>)
  /\ Len(Get(ret, K.work).xs) = 1
  /\ Get(Get(ret, K.work).xs[1], K.name) = Str(<<"F","i","s","e","r","v">>)

====
